---------------------------- MODULE Spec2Model ----------------------------
(***************************************************************************)
(* Model of the tcp_demo_protocol crate (protocol/src/lib.rs and its       *)
(* client/server binaries): the Request/Response framing codec and the     *)
(* send/receive paths over a TCP connection.                               *)
(*                                                                         *)
(* A Rust String is modelled as the sequence of its chars (Unicode scalar  *)
(* values); as_bytes is the UTF-8 encoding and String::from_utf8 the       *)
(* validating decoding.  A byte is an integer in 0..255.                   *)
(***************************************************************************)
EXTENDS Integers, Sequences, FiniteSets, TLC

VARIABLES
    \* ---- codec scenario (a message serialized to a Vec<u8>, a Cursor read back)
    cpc,        \* "start" | "serialized" | "loaded" | "decoded"
    msg,        \* the in-memory Request / Response
    buf,        \* the Vec<u8> serialize wrote into
    ret,        \* the usize serialize returned (-1: not called yet)
    src,        \* the bytes the Cursor handed to deserialize holds
    how,        \* how src was derived from buf: "none" | "whole" | "truncated" | "tampered"
    decoder,    \* which deserialize was called: "none" | "Request" | "Response"
    out,        \* the io::Result deserialize returned
    \* ---- connection scenario (one frame sent over a TcpStream)
    spc,        \* sender: "start" | "writing" | "flushing" | "returned" | "closed"
    smsg,       \* the message the sender sends
    swriter,    \* "TcpStream" (Protocol::send_message) | "BufWriter" (client / server binary)
    pending,    \* write calls of serialize not yet made
    wbuf,       \* the BufWriter's buffer
    handed,     \* every byte handed to the transport so far (history)
    net,        \* bytes handed to the transport and not yet delivered to the peer's socket
    sock,       \* bytes delivered to the receiving socket and not yet read
    delivered,  \* the segments delivered to the receiving socket so far (history)
    fin,        \* TRUE once the sender's side of the connection is closed
    rpc,        \* receiver: field being read "disc" | "len" | "body" | "alen" | "amount" | "done"
    rkind,      \* discriminant decoded so far (0: none yet)
    rmessage,   \* message decoded so far
    need,       \* bytes of the current field still to read (the rest of read_exact's slice)
    got,        \* bytes of the current field read so far
    rbuf,       \* the BufReader's buffer (read ahead, not yet consumed)
    rres,       \* the io::Result read_message returned
    \* ---- jumble scenario (jumble_message called twice on one input)
    jpc,        \* "start" | "loop" | "returned" | "panicked"
    jmessage,   \* message: &str
    jamount,    \* amount: u16
    jchars,     \* chars: Vec<char>
    ji,         \* i, the loop variable (0: the loop has not started)
    jtrace,     \* chars after each iteration of this call (history)
    jcalls,     \* the outcome of each call that has ended (history)
    \* ---- server scenario (the listener, and per connection the peer, the
    \*      handler thread and the two directions of the TcpStream)
    listener,   \* main's loop over listener.incoming(): "listening" | "exited"
    peers,      \* per connection: who connects and what they send
    wire,       \* per connection: the bytes written and delivered, each way
    handler,    \* per connection: the thread running handle_connection
    client,     \* per connection: the peer's progress and what it received
    \* ---- raw scenario (raw/src/lib.rs: a string read from a Cursor)
    xpc,        \* "start" | "reading" | "done"
    xmessage,   \* the message the Cursor holds
    xfn,        \* "none" | "unbuffered" | "buffered"
    xpos,       \* the Cursor's position
    received,   \* received: Vec<u8>
    xres,       \* the io::Result<String> returned
    \* ---- stream scenarios (several messages sent one after the other on one
    \*      connection, which the connection scenario's variables describe)
    frames,     \* the messages the sender sends, in order
    sending,    \* which of them send_message is sending (0: none yet)
    inbox       \* the io::Result of each read_message call that returned, in order

codecVars == <<cpc, msg, buf, ret, src, how, decoder, out>>
connVars == <<spc, smsg, swriter, pending, wbuf, handed, net, sock, delivered, fin,
              rpc, rkind, rmessage, need, got, rbuf, rres>>
jumbleVars == <<jpc, jmessage, jamount, jchars, ji, jtrace, jcalls>>
serverVars == <<listener, peers, wire, handler, client>>
rawVars == <<xpc, xmessage, xfn, xpos, received, xres>>
streamVars == <<frames, sending, inbox>>
vars == <<cpc, msg, buf, ret, src, how, decoder, out,
          spc, smsg, swriter, pending, wbuf, handed, net, sock, delivered, fin,
          rpc, rkind, rmessage, need, got, rbuf, rres,
          jpc, jmessage, jamount, jchars, ji, jtrace, jcalls,
          listener, peers, wire, handler, client,
          xpc, xmessage, xfn, xpos, received, xres,
          frames, sending, inbox>>

\* what each scenario leaves alone
notCodec == <<connVars, jumbleVars, serverVars, rawVars, streamVars>>
notConn == <<codecVars, jumbleVars, serverVars, rawVars, streamVars>>
notJumble == <<codecVars, connVars, serverVars, rawVars, streamVars>>
notServer == <<codecVars, connVars, jumbleVars, rawVars, streamVars>>
notRaw == <<codecVars, connVars, jumbleVars, serverVars, streamVars>>
notStream == <<codecVars, jumbleVars, serverVars, rawVars>>

---------------------------------------------------------------------------
\* Bounds of the model

\* longest message, in chars, drawn for the enumerated messages
MaxChars == 2
\* how many leading bytes of a frame are cut at / overwritten
MaxEdit == 8
\* shortest run of one byte that a state value holds in short (see Pack)
RunMin == 256
\* largest amount drawn for a call of jumble_message run step by step
MaxAmount == 6
\* how many times jumble_message is called on the same input
MaxCalls == 2

---------------------------------------------------------------------------
\* Integer widths and library constants

\* u16::MAX + 1: `as u16` keeps the value modulo this
U16Mod == 65536
\* std's DEFAULT_BUF_SIZE, the capacity BufReader::new / BufWriter::new give
BufCap == 8192

Min(a, b) == IF a < b THEN a ELSE b

\* `let x = v;` followed by F(x): v is computed once and F works on its value
With(v, F(_)) == CHOOSE result \in {F(x) : x \in {v}} : TRUE

\* chars the enumerated messages are made of: 'A', e-acute (2 bytes in UTF-8),
\* the euro sign (3 bytes) and an emoji (4 bytes)
Chars == {65, 233, 8364, 128512}

\* bytes written over a frame byte: 0, an unknown discriminant, a stray
\* continuation byte, a lead byte, and a byte that is never valid in UTF-8
TamperBytes == {0, 3, 128, 195, 255}

\* the sequence of n repetitions of the byte / char v
Repeat(v, n) == <<>> \o [i \in 1..n |-> v]

Strings == UNION {[1..n -> Chars] : n \in 0..MaxChars}

\* messages around the u16 limit: 65535 and 65536 bytes of 'a'
LongStrings == {Repeat(97, U16Mod - 1), Repeat(97, U16Mod)}

Amounts == {0, 258, 65535}

---------------------------------------------------------------------------
\* How the state holds a sequence of bytes or chars.  The state variables hold
\* a run of RunMin or more equal elements in short, as -n followed by the
\* element (bytes and chars are never negative): <<1, 0, 0, -65536, 97>> is
\* the 65539 bytes 1, 0, 0 and 65536 times 97.  Pack and Unpack convert; every
\* operator of the model works on the sequence itself.

MinOf(S) == CHOOSE x \in S : \A y \in S : x <= y

RECURSIVE Unpack(_)
Unpack(p) ==
    IF \A i \in 1..Len(p) : p[i] >= 0 THEN p
    ELSE IF Head(p) < 0 THEN Repeat(p[2], -p[1]) \o Unpack(SubSeq(p, 3, Len(p)))
    ELSE <<Head(p)>> \o Unpack(Tail(p))

RECURSIVE PackRuns(_, _, _, _)
PackRuns(s, from, starts, long) ==
    IF long = {} THEN SubSeq(s, from, Len(s))
    ELSE LET i == MinOf(long)
             later == {j \in starts : j > i}
             end == IF later = {} THEN Len(s) ELSE MinOf(later) - 1
         IN  SubSeq(s, from, i - 1) \o <<-(end - i + 1), s[i]>>
                \o PackRuns(s, end + 1, starts, long \ {i})

Pack(s) ==
    IF Len(s) < RunMin THEN s
    ELSE LET starts == {i \in 1..Len(s) : i = 1 \/ s[i] # s[i - 1]}
             RunLen(i) ==
                 LET later == {j \in starts : j > i}
                 IN  (IF later = {} THEN Len(s) + 1 ELSE MinOf(later)) - i
         IN  PackRuns(s, 1, starts, {i \in starts : RunLen(i) >= RunMin})

PackMsg(m) == [m EXCEPT !.message = Pack(@)]
UnpackMsg(m) == [m EXCEPT !.message = Unpack(@)]
PackResult(r) == [r EXCEPT !.value = PackMsg(@)]
UnpackResult(r) == [r EXCEPT !.value = UnpackMsg(@)]

---------------------------------------------------------------------------
\* UTF-8 (String::as_bytes, String::from_utf8)

IsCont(b) == b >= 128 /\ b <= 191

encode_utf8(c) ==
    IF c < 128 THEN <<c>>
    ELSE IF c < 2048 THEN <<192 + (c \div 64), 128 + (c % 64)>>
    ELSE IF c < 65536 THEN
        <<224 + (c \div 4096), 128 + ((c \div 64) % 64), 128 + (c % 64)>>
    ELSE
        <<240 + (c \div 262144), 128 + ((c \div 4096) % 64),
          128 + ((c \div 64) % 64), 128 + (c % 64)>>

RECURSIVE EncodeFrom(_, _)
EncodeFrom(s, i) ==
    IF i > Len(s) THEN <<>> ELSE encode_utf8(s[i]) \o EncodeFrom(s, i + 1)

\* message.as_bytes(): the UTF-8 bytes of the string
as_bytes(s) ==
    IF \A i \in 1..Len(s) : s[i] < 128
    THEN s
    ELSE EncodeFrom(s, 1)

\* the length in bytes of the UTF-8 sequence a lead byte announces (0: not a lead byte)
Utf8Width(b) ==
    IF b < 128 THEN 1
    ELSE IF b >= 194 /\ b <= 223 THEN 2
    ELSE IF b >= 224 /\ b <= 239 THEN 3
    ELSE IF b >= 240 /\ b <= 244 THEN 4
    ELSE 0

\* the second byte of a sequence is restricted further, to exclude overlong
\* encodings, surrogates and values above U+10FFFF
SecondOk(b1, b2) ==
    IF b1 = 224 THEN b2 >= 160 /\ b2 <= 191
    ELSE IF b1 = 237 THEN b2 >= 128 /\ b2 <= 159
    ELSE IF b1 = 240 THEN b2 >= 144 /\ b2 <= 191
    ELSE IF b1 = 244 THEN b2 >= 128 /\ b2 <= 143
    ELSE IsCont(b2)

\* the char a well-formed sequence of w bytes at b[i] encodes
Utf8Char(b, i, w) ==
    IF w = 1 THEN b[i]
    ELSE IF w = 2 THEN (b[i] - 192) * 64 + (b[i + 1] - 128)
    ELSE IF w = 3 THEN (b[i] - 224) * 4096 + (b[i + 1] - 128) * 64 + (b[i + 2] - 128)
    ELSE (b[i] - 240) * 262144 + (b[i + 1] - 128) * 4096
         + (b[i + 2] - 128) * 64 + (b[i + 3] - 128)

Utf8WellFormedAt(b, i) ==
    LET w == Utf8Width(b[i]) IN
    /\ w > 0
    /\ i + w - 1 <= Len(b)
    /\ w >= 2 => SecondOk(b[i], b[i + 1])
    /\ \A k \in 2..(w - 1) : IsCont(b[i + k])

RECURSIVE DecodeFrom(_, _)
DecodeFrom(b, i) ==
    IF i > Len(b) THEN [ok |-> TRUE, chars |-> <<>>]
    ELSE IF ~Utf8WellFormedAt(b, i) THEN [ok |-> FALSE, chars |-> <<>>]
    ELSE With(Utf8Width(b[i]), LAMBDA w :
         With(DecodeFrom(b, i + w), LAMBDA rest :
             IF rest.ok
             THEN [ok |-> TRUE, chars |-> <<Utf8Char(b, i, w)>> \o rest.chars]
             ELSE rest))

\* String::from_utf8_lossy in its place: never an error, U+FFFD for what is
\* not UTF-8
from_utf8_lossy(b) ==
    IF DecodeFrom(b, 1).ok THEN DecodeFrom(b, 1) ELSE [ok |-> TRUE, chars |-> <<65533>>]

\* String::from_utf8(bytes): the string, or an error when bytes are not UTF-8
from_utf8(b) ==
    IF \A i \in 1..Len(b) : b[i] < 128
    THEN [ok |-> TRUE, chars |-> b]
    ELSE DecodeFrom(b, 1)

---------------------------------------------------------------------------
\* Messages

Echo(m) == [kind |-> "Echo", message |-> m, amount |-> 0]
Jumble(m, a) == [kind |-> "Jumble", message |-> m, amount |-> a]
Response(m) == [kind |-> "Response", message |-> m, amount |-> 0]
NoMessage == [kind |-> "None", message |-> <<>>, amount |-> 0]

IsRequest(m) == m.kind \in {"Echo", "Jumble"}

\* both variants given the type byte of Echo
RequestType_same(req) == 1

\* impl From<&Request> for u8
RequestType(req) == IF req.kind = "Echo" THEN 1 ELSE 2

\* the length in bytes of a message: message.len() of a String, or of its as_bytes()
ByteLen(s) == Len(as_bytes(s))

\* a message the wire format can represent: its length fits the u16 prefix
Valid(m) == ByteLen(m.message) <= U16Mod - 1 /\ m.amount \in 0..(U16Mod - 1)

---------------------------------------------------------------------------
\* byteorder::WriteBytesExt over an `impl Write`.  serialize is modelled by the
\* sequence of write calls it makes (one chunk of bytes per call) and the
\* count it returns; the writer decides what becomes of each call.

\* `n as u16`
AsU16(n) == n % U16Mod

write_u8(n) == <<n>>

\* write_u16::<LittleEndian> in its place: the low byte first
write_u16_le(n) == <<n % 256, n \div 256>>

\* write_u16::<NetworkEndian>(n): the high byte first
write_u16(n) == <<n \div 256, n % 256>>

\* Request::serialize
Request_serialize(req) ==
    LET message == as_bytes(req.message)
        head == <<write_u8(RequestType(req)),
                  write_u16(AsU16(Len(message))),
                  message>>
        bytes_written == 1 + 2 + Len(message)
    IN  IF req.kind = "Echo"
        THEN [writes |-> head, ret |-> bytes_written]
        ELSE [writes |-> head \o <<write_u16(2), write_u16(req.amount)>>,
              ret |-> bytes_written + 4]

\* the type byte its comment counts ("Type + len + bytes") written as well
Response_serialize_typed(resp) ==
    LET resp_bytes == as_bytes(resp.message)
    IN  [writes |-> <<write_u8(1), write_u16(AsU16(Len(resp_bytes))), resp_bytes>>,
         ret |-> 3 + Len(resp_bytes)]

\* Response::serialize
Response_serialize(resp) ==
    LET resp_bytes == as_bytes(resp.message)
    IN  [writes |-> <<write_u16(AsU16(Len(resp_bytes))), resp_bytes>>,
         ret |-> 3 + Len(resp_bytes)]

Serialize(m) == IF IsRequest(m) THEN Request_serialize(m) ELSE Response_serialize(m)

\* the bytes a sequence of write calls puts, in order, into a Vec<u8>
RECURSIVE Concat(_)
Concat(chunks) ==
    IF chunks = <<>> THEN <<>> ELSE Head(chunks) \o Concat(Tail(chunks))

\* the frame of a message: what serialize leaves in an empty Vec<u8>
Frame(m) == Concat(Serialize(m).writes)

---------------------------------------------------------------------------
\* byteorder::ReadBytesExt over a Cursor: src is the Cursor's bytes, pos the
\* number of bytes already consumed.

Ok(v, pos) == [status |-> "ok", kind |-> "", text |-> "", value |-> v, pos |-> pos]
Err(kind, text, pos) ==
    [status |-> "err", kind |-> kind, text |-> text, value |-> NoMessage, pos |-> pos]
NoResult == [status |-> "none", kind |-> "", text |-> "", value |-> NoMessage, pos |-> 0]

\* the error read_exact gives when the source ends first
UnexpectedEof(pos) == Err("UnexpectedEof", "failed to fill whole buffer", pos)

\* Read::read in its place: one read, a short count taken for a full one, the
\* rest of the zeroed slice left as it is
read_exact_short(s, pos, n) ==
    LET k == Min(n, Len(s) - pos)
    IN  [ok |-> TRUE,
         bytes |-> SubSeq(s, pos + 1, pos + k) \o [i \in 1..(n - k) |-> 0],
         pos |-> pos + k]

\* Read::read_exact into a slice of n bytes
read_exact(s, pos, n) ==
    IF pos + n <= Len(s)
    THEN [ok |-> TRUE, bytes |-> SubSeq(s, pos + 1, pos + n), pos |-> pos + n]
    ELSE [ok |-> FALSE, bytes |-> <<>>, pos |-> Len(s)]

read_u8(s, pos) ==
    With(read_exact(s, pos, 1), LAMBDA r :
        [ok |-> r.ok, value |-> IF r.ok THEN r.bytes[1] ELSE 0, pos |-> r.pos])

\* read_u16::<NetworkEndian>
read_u16(s, pos) ==
    With(read_exact(s, pos, 2), LAMBDA r :
        [ok |-> r.ok,
         value |-> IF r.ok THEN r.bytes[1] * 256 + r.bytes[2] ELSE 0,
         pos |-> r.pos])

\* extract_string: the u16 length, that many bytes, decoded as UTF-8
extract_string(s, pos) ==
    With(read_u16(s, pos), LAMBDA length :
    IF ~length.ok THEN UnexpectedEof(length.pos)
    ELSE With(read_exact(s, length.pos, length.value), LAMBDA bytes :
         IF ~bytes.ok THEN UnexpectedEof(bytes.pos)
         ELSE With(from_utf8(bytes.bytes), LAMBDA str :
              IF str.ok
              THEN Ok(Echo(str.chars), bytes.pos)
              ELSE Err("InvalidData", "Invalid utf8", bytes.pos))))

\* the arm of type 2 with the length of the amount checked: a length other
\* than 2 is refused
JumbleArm_checked(s, pos) ==
    With(extract_string(s, pos), LAMBDA message :
    IF message.status # "ok" THEN message
    ELSE With(read_u16(s, message.pos), LAMBDA amount_len :
         IF ~amount_len.ok THEN UnexpectedEof(amount_len.pos)
         ELSE IF amount_len.value # 2
         THEN Err("InvalidData", "Invalid amount length", amount_len.pos)
         ELSE With(read_u16(s, amount_len.pos), LAMBDA amount :
              IF ~amount.ok THEN UnexpectedEof(amount.pos)
              ELSE Ok(Jumble(message.value.message, amount.value), amount.pos))))

\* Request::deserialize, the arm of type 2: the message, the length of the
\* amount (read and dropped), the amount
JumbleArm(s, pos) ==
    With(extract_string(s, pos), LAMBDA message :
    IF message.status # "ok" THEN message
    ELSE With(read_u16(s, message.pos), LAMBDA amount_len :
         IF ~amount_len.ok THEN UnexpectedEof(amount_len.pos)
         ELSE With(read_u16(s, amount_len.pos), LAMBDA amount :
              IF ~amount.ok THEN UnexpectedEof(amount.pos)
              ELSE Ok(Jumble(message.value.message, amount.value), amount.pos))))

\* a slip in the match: every type but 1 taken for Jumble
MatchType_no_default(type, s, pos) ==
    IF type = 1 THEN extract_string(s, pos) ELSE JumbleArm(s, pos)

\* Request::deserialize, the match on the type byte
MatchType(type, s, pos) ==
    IF type = 1 THEN extract_string(s, pos)
    ELSE IF type = 2 THEN JumbleArm(s, pos)
    ELSE Err("InvalidData", "Invalid Request Type", pos)

\* Request::deserialize
Request_deserialize(s) ==
    With(read_u8(s, 0), LAMBDA type :
    IF ~type.ok THEN UnexpectedEof(type.pos)
    ELSE MatchType(type.value, s, type.pos))

\* Response::deserialize
Response_deserialize(s) ==
    With(extract_string(s, 0), LAMBDA value :
    IF value.status # "ok" THEN value
    ELSE Ok(Response(value.value.message), value.pos))

---------------------------------------------------------------------------
\* Codec scenario: the unit tests' round trip (serialize into a Vec<u8>, wrap
\* the bytes in a Cursor, deserialize), for every message drawn, and with the
\* Cursor also holding a cut or an altered copy of the bytes.

Messages ==
    {Echo(s) : s \in Strings \cup LongStrings}
    \cup {Jumble(s, a) : s \in Strings, a \in Amounts}
    \cup {Jumble(s, 258) : s \in LongStrings}
    \cup {Response(s) : s \in Strings \cup LongStrings}

\* a frame of one of the long messages
IsLong(b) == Len(b) >= U16Mod - 1

\* where a frame is cut: within its first bytes and just before its end
\* (a long frame only just before its end)
CutPoints(b) ==
    (IF IsLong(b) THEN {} ELSE 0..Min(Len(b) - 1, MaxEdit)) \cup {Len(b) - 1}

\* which bytes of a frame are overwritten: its first ones (none of a long frame)
EditPoints(b) == IF IsLong(b) THEN {} ELSE 1..Min(Len(b), MaxEdit)

ConnIdle ==
    /\ spc = "idle" /\ smsg = NoMessage /\ swriter = "none" /\ pending = <<>>
    /\ wbuf = <<>> /\ handed = <<>> /\ net = <<>> /\ sock = <<>>
    /\ delivered = <<>> /\ fin = FALSE
    /\ rpc = "idle" /\ rkind = 0 /\ rmessage = <<>> /\ need = 0 /\ got = <<>>
    /\ rbuf = <<>> /\ rres = NoResult

CodecIdle ==
    /\ cpc = "idle" /\ msg = NoMessage /\ buf = <<>> /\ ret = -1 /\ src = <<>>
    /\ how = "none" /\ decoder = "none" /\ out = NoResult

JumbleIdle ==
    /\ jpc = "idle" /\ jmessage = <<>> /\ jamount = 0 /\ jchars = <<>> /\ ji = 0
    /\ jtrace = <<>> /\ jcalls = <<>>

ServerIdle ==
    /\ listener = "idle" /\ peers = <<>> /\ wire = <<>> /\ handler = <<>>
    /\ client = <<>>

RawIdle ==
    /\ xpc = "idle" /\ xmessage = <<>> /\ xfn = "none" /\ xpos = 0
    /\ received = <<>> /\ xres = NoResult

StreamIdle == frames = <<>> /\ sending = 0 /\ inbox = <<>>

\* the values the codec scenario's variables hold
Msg == UnpackMsg(msg)
Buf == Unpack(buf)
Src == Unpack(src)
Out == UnpackResult(out)

CodecInit ==
    /\ cpc = "start"
    /\ msg \in {PackMsg(m) : m \in Messages}
    /\ buf = <<>> /\ ret = -1 /\ src = <<>>
    /\ how = "none" /\ decoder = "none" /\ out = NoResult
    /\ ConnIdle /\ JumbleIdle /\ ServerIdle /\ RawIdle /\ StreamIdle

\* req.serialize(&mut bytes) on an empty Vec<u8>
SerializeRequest ==
    /\ cpc = "start" /\ IsRequest(msg)
    /\ buf' = Pack(Concat(Request_serialize(Msg).writes))
    /\ ret' = Request_serialize(Msg).ret
    /\ cpc' = "serialized"
    /\ UNCHANGED <<msg, src, how, decoder, out>>
    /\ UNCHANGED notCodec

\* resp.serialize(&mut bytes) on an empty Vec<u8>
SerializeResponse ==
    /\ cpc = "start" /\ ~IsRequest(msg)
    /\ buf' = Pack(Concat(Response_serialize(Msg).writes))
    /\ ret' = Response_serialize(Msg).ret
    /\ cpc' = "serialized"
    /\ UNCHANGED <<msg, src, how, decoder, out>>
    /\ UNCHANGED notCodec

\* Cursor::new(bytes)
CursorWhole ==
    /\ cpc = "serialized"
    /\ src' = buf /\ how' = "whole" /\ cpc' = "loaded"
    /\ UNCHANGED <<msg, buf, ret, decoder, out>>
    /\ UNCHANGED notCodec

\* a byte source that ends inside the frame
CursorTruncated ==
    /\ cpc = "serialized"
    /\ \E k \in CutPoints(Buf) : src' = Pack(SubSeq(Buf, 1, k))
    /\ how' = "truncated" /\ cpc' = "loaded"
    /\ UNCHANGED <<msg, buf, ret, decoder, out>>
    /\ UNCHANGED notCodec

\* a byte source holding the frame with one byte altered
CursorTampered ==
    /\ cpc = "serialized"
    /\ \E i \in EditPoints(Buf) : \E b \in TamperBytes \ {Buf[i]} :
           src' = Pack([Buf EXCEPT ![i] = b])
    /\ how' = "tampered" /\ cpc' = "loaded"
    /\ UNCHANGED <<msg, buf, ret, decoder, out>>
    /\ UNCHANGED notCodec

\* values written in place of the length of the amount
AmountLens == {0, 1, 3, 258, 65535}

\* where the length of the amount starts in the frame of a Jumble: after the
\* type byte, the length of the message and the message
AmountLenAt(m) == 1 + 2 + ByteLen(m.message)

\* the frame b with the 2 bytes after position at holding v, big-endian
WithU16At(b, at, v) ==
    SubSeq(b, 1, at) \o <<v \div 256, v % 256>> \o SubSeq(b, at + 3, Len(b))

\* a Cursor over the frame of a Jumble whose amount-length field holds
\* another value than 2
CursorAmountLen ==
    /\ cpc = "serialized" /\ Msg.kind = "Jumble" /\ Valid(Msg)
    /\ \E v \in AmountLens : src' = Pack(WithU16At(Buf, AmountLenAt(Msg), v))
    /\ how' = "amount_len" /\ cpc' = "loaded"
    /\ UNCHANGED <<msg, buf, ret, decoder, out>>
    /\ UNCHANGED notCodec

\* Request::deserialize(&mut reader)
DeserializeRequest ==
    /\ cpc = "loaded"
    /\ out' = PackResult(Request_deserialize(Src))
    /\ decoder' = "Request" /\ cpc' = "decoded"
    /\ UNCHANGED <<msg, buf, ret, src, how>>
    /\ UNCHANGED notCodec

\* Response::deserialize(&mut reader)
DeserializeResponse ==
    /\ cpc = "loaded"
    /\ out' = PackResult(Response_deserialize(Src))
    /\ decoder' = "Response" /\ cpc' = "decoded"
    /\ UNCHANGED <<msg, buf, ret, src, how>>
    /\ UNCHANGED notCodec

CodecNext ==
    \/ SerializeRequest
    \/ SerializeResponse
    \/ CursorWhole
    \/ CursorTruncated
    \/ CursorTampered
    \/ CursorAmountLen
    \/ DeserializeRequest
    \/ DeserializeResponse

CodecSpec == CodecInit /\ [][CodecNext]_vars

---------------------------------------------------------------------------
\* Connection scenario: one peer sends one frame over a TcpStream and the other
\* peer decodes it through its BufReader.  The sender is Protocol::send_message
\* (serialize straight into the TcpStream, then flush), or the client's
\* send_request / the server's reply (serialize into a BufWriter, then flush),
\* or a foreign peer that writes bytes of its own to the server.  The network
\* delivers the bytes in order, in segments of any size, at any time.

\* the messages sent in this scenario
ConnMessages ==
    {Echo(<<>>), Echo(<<65, 233>>), Jumble(<<>>, 0), Jumble(<<8364>>, 258),
     Response(<<>>), Response(<<65, 233>>)}

\* what a foreign peer writes: an unknown type byte, a string that is not
\* UTF-8, a Jumble frame with another amount length, a frame with bytes after it
RawFrames ==
    {<<3, 0>>, <<1, 0, 1, 255>>, <<2, 0, 0, 0, 9, 1, 2>>, <<1, 0, 1, 65, 7>>}

Raw == [kind |-> "Raw", message |-> <<>>, amount |-> 0]

\* the deserialize the receiving peer calls: Response::deserialize in the
\* client, Request::deserialize in the server
Receives(m) == IF m.kind = "Response" THEN "Response" ELSE "Request"

\* T::deserialize over bytes that are all there (the frame in one piece)
Deserialize(d, s) ==
    IF d = "Request" THEN Request_deserialize(s) ELSE Response_deserialize(s)

\* BufWriter::write_all: the buffer after the call and the bytes passed on to
\* the TcpStream by it
BufWriter_write_all(w, chunk) ==
    LET spare == BufCap - Len(w) IN
    IF Len(chunk) < spare THEN [wbuf |-> w \o chunk, out |-> <<>>]
    ELSE LET flushed == Len(chunk) > spare
             w1 == IF flushed THEN <<>> ELSE w
             o1 == IF flushed THEN w ELSE <<>>
         IN  IF Len(chunk) >= BufCap
             THEN [wbuf |-> w1, out |-> o1 \o chunk]
             ELSE [wbuf |-> w1 \o chunk, out |-> o1]

\* one write call of serialize on the sender's writer
write_all(writer, w, chunk) ==
    IF writer = "BufWriter" THEN BufWriter_write_all(w, chunk)
    ELSE [wbuf |-> w, out |-> chunk]

\* the flush left out: nothing is passed on
flush_nothing(writer, w) == [wbuf |-> w, out |-> <<>>]

\* writer.flush(): a BufWriter passes its buffer on to the TcpStream; a
\* TcpStream has nothing to flush
flush(writer, w) == [wbuf |-> <<>>, out |-> w]

\* the first field Request::deserialize / Response::deserialize reads
FirstField(d) ==
    IF d = "Request" THEN [rpc |-> "type", need |-> 1]
    ELSE [rpc |-> "length", need |-> 2]

ConnInit ==
    /\ spc = "writing"
    /\ \/ /\ smsg \in ConnMessages
          /\ swriter \in {"TcpStream", "BufWriter"}
          /\ pending = Serialize(smsg).writes
       \/ /\ smsg = Raw
          /\ swriter = "TcpStream"
          /\ \E f \in RawFrames : pending = <<f>>
    /\ wbuf = <<>> /\ handed = <<>> /\ net = <<>> /\ sock = <<>>
    /\ delivered = <<>> /\ fin = FALSE
    /\ rpc = FirstField(Receives(smsg)).rpc
    /\ need = FirstField(Receives(smsg)).need
    /\ rkind = 0 /\ rmessage = <<>> /\ got = <<>> /\ rbuf = <<>>
    /\ rres = NoResult
    /\ CodecIdle /\ JumbleIdle /\ ServerIdle /\ RawIdle /\ StreamIdle

\* the next write call of message.serialize(&mut writer); after the last one
\* serialize returns Ok and the sender goes on to flush
SenderWrite ==
    /\ spc = "writing" /\ pending # <<>>
    /\ LET w == write_all(swriter, wbuf, Head(pending)) IN
       /\ wbuf' = w.wbuf
       /\ handed' = handed \o w.out
       /\ net' = net \o w.out
    /\ pending' = Tail(pending)
    /\ spc' = IF Tail(pending) = <<>> THEN "flushing" ELSE "writing"
    /\ UNCHANGED <<smsg, swriter, sock, delivered, fin>>
    /\ UNCHANGED <<rpc, rkind, rmessage, need, got, rbuf, rres>>
    /\ UNCHANGED notConn

\* self.stream.flush() / self.writer.flush() / writer.flush(); the send
\* returns Ok
SenderFlush ==
    /\ spc = "flushing"
    /\ LET w == flush(swriter, wbuf) IN
       /\ wbuf' = w.wbuf
       /\ handed' = handed \o w.out
       /\ net' = net \o w.out
    /\ spc' = "returned"
    /\ UNCHANGED <<smsg, swriter, pending, sock, delivered, fin>>
    /\ UNCHANGED <<rpc, rkind, rmessage, need, got, rbuf, rres>>
    /\ UNCHANGED notConn

\* the sender drops its stream after the send returned: the BufWriter's drop
\* writes out what its buffer still holds, and the connection is closed
SenderClose ==
    /\ spc = "returned"
    /\ handed' = handed \o wbuf
    /\ net' = net \o wbuf
    /\ wbuf' = <<>>
    /\ fin' = TRUE
    /\ spc' = "closed"
    /\ UNCHANGED <<smsg, swriter, pending, sock, delivered>>
    /\ UNCHANGED <<rpc, rkind, rmessage, need, got, rbuf, rres>>
    /\ UNCHANGED notConn

\* the sending process ends before its send returned: the writes not yet made
\* and the bytes still in its BufWriter are lost, what the transport was handed
\* is still delivered, and the connection is closed
SenderAbort ==
    /\ spc \in {"writing", "flushing"}
    /\ pending' = <<>>
    /\ wbuf' = <<>>
    /\ fin' = TRUE
    /\ spc' = "aborted"
    /\ UNCHANGED <<smsg, swriter, handed, net, sock, delivered>>
    /\ UNCHANGED <<rpc, rkind, rmessage, need, got, rbuf, rres>>
    /\ UNCHANGED notConn

\* the network delivers the next n bytes to the receiving socket
Deliver ==
    /\ net # <<>>
    /\ \E n \in 1..Len(net) :
        /\ sock' = sock \o SubSeq(net, 1, n)
        /\ delivered' = Append(delivered, SubSeq(net, 1, n))
        /\ net' = SubSeq(net, n + 1, Len(net))
    /\ UNCHANGED <<spc, smsg, swriter, pending, wbuf, handed, fin>>
    /\ UNCHANGED <<rpc, rkind, rmessage, need, got, rbuf, rres>>
    /\ UNCHANGED notConn

\* BufReader::read into a slice of n bytes, with rb in the reader's buffer and
\* sk in the socket: with an empty buffer and a slice of at least the buffer's
\* capacity the TcpStream is read into the slice; otherwise an empty buffer is
\* first filled by one TcpStream::read, and the slice is served from the buffer
BufReader_read(rb, sk, n) ==
    IF rb = <<>> /\ n >= BufCap
    THEN LET k == Min(n, Len(sk))
         IN  [bytes |-> SubSeq(sk, 1, k), rbuf |-> <<>>,
              sock |-> SubSeq(sk, k + 1, Len(sk))]
    ELSE LET filled == IF rb = <<>> THEN SubSeq(sk, 1, Min(BufCap, Len(sk))) ELSE rb
             rest == IF rb = <<>> THEN SubSeq(sk, Len(filled) + 1, Len(sk)) ELSE sk
             k == Min(n, Len(filled))
         IN  [bytes |-> SubSeq(filled, 1, k),
              rbuf |-> SubSeq(filled, k + 1, Len(filled)),
              sock |-> rest]

\* the slice read_exact fills: zeroed when allocated (vec![0u8; length]), its
\* first bytes read so far
Slice(filled, rest) == filled \o Repeat(0, rest)

\* one read taken for the whole field (Read::read in place of read_exact)
MoreToRead_once(rest) == FALSE

\* read_exact's loop: it reads again while the slice is not full
MoreToRead(rest) == rest > 0

Field(pc, n, kind, message) ==
    [rpc |-> pc, need |-> n, rkind |-> kind, rmessage |-> message, rres |-> NoResult]
Return(kind, message, result) ==
    [rpc |-> "done", need |-> 0, rkind |-> kind, rmessage |-> message, rres |-> result]

\* extract_string once the string's bytes are read, and what its caller does
\* with the string
AfterBody(kind, bytes, pos) ==
    LET str == from_utf8(bytes) IN
    IF ~str.ok THEN Return(kind, <<>>, Err("InvalidData", "Invalid utf8", pos))
    ELSE IF kind = 1 THEN Return(kind, str.chars, Ok(Echo(str.chars), pos))
    ELSE IF kind = 2 THEN Field("amount_len", 2, kind, str.chars)
    ELSE Return(kind, str.chars, Ok(Response(str.chars), pos))

\* deserialize from the field just read to its next read (or its return); pos
\* is the number of bytes taken from the reader so far
Advance(pc, kind, message, field, pos) ==
    IF pc = "type" THEN
        IF field[1] \in {1, 2} THEN Field("length", 2, field[1], <<>>)
        ELSE Return(kind, <<>>, Err("InvalidData", "Invalid Request Type", pos))
    ELSE IF pc = "length" THEN
        IF field[1] * 256 + field[2] = 0 THEN AfterBody(kind, <<>>, pos)
        ELSE Field("body", field[1] * 256 + field[2], kind, <<>>)
    ELSE IF pc = "body" THEN AfterBody(kind, field, pos)
    ELSE IF pc = "amount_len" THEN Field("amount", 2, kind, message)
    ELSE Return(kind, message,
                Ok(Jumble(message, field[1] * 256 + field[2]), pos))

\* every byte that has reached the receiving socket so far
Arrived == Concat(delivered)

\* a read on a connection the peer has closed keeps waiting
AtEof_waits == FALSE

\* TcpStream::read returns 0: the peer closed and every byte was read
AtEof == sock = <<>> /\ net = <<>> /\ fin

\* read_message / deserialize: one read of read_exact's loop that gets bytes,
\* and, when the field is then whole, the decoding up to the next read
ReaderRead ==
    /\ rres.status = "none"
    /\ rbuf # <<>> \/ sock # <<>>
    /\ LET r == BufReader_read(rbuf, sock, need)
           filled == got \o r.bytes
           rest == need - Len(r.bytes)
           pos == Len(Arrived) - Len(r.sock) - Len(r.rbuf)
           a == Advance(rpc, rkind, rmessage, Slice(filled, rest), pos)
       IN  /\ rbuf' = r.rbuf
           /\ sock' = r.sock
           /\ IF MoreToRead(rest)
              THEN /\ got' = filled
                   /\ need' = rest
                   /\ UNCHANGED <<rpc, rkind, rmessage, rres>>
              ELSE /\ got' = <<>>
                   /\ need' = a.need
                   /\ rpc' = a.rpc
                   /\ rkind' = a.rkind
                   /\ rmessage' = a.rmessage
                   /\ rres' = a.rres
    /\ UNCHANGED <<spc, smsg, swriter, pending, wbuf, handed, net, delivered, fin>>
    /\ UNCHANGED notConn

\* read_message / deserialize: the read returns 0 before the field is whole,
\* read_exact fails and the error is returned
ReaderEof ==
    /\ rres.status = "none"
    /\ rbuf = <<>> /\ AtEof
    /\ rres' = UnexpectedEof(Len(Arrived))
    /\ rpc' = "done"
    /\ UNCHANGED <<rkind, rmessage, need, got, rbuf>>
    /\ UNCHANGED <<spc, smsg, swriter, pending, wbuf, handed, net, sock, delivered, fin>>
    /\ UNCHANGED notConn

ConnNext ==
    \/ SenderWrite
    \/ SenderFlush
    \/ SenderClose
    \/ SenderAbort
    \/ Deliver
    \/ ReaderRead
    \/ ReaderEof

ConnSpec == ConnInit /\ [][ConnNext]_vars

\* the transport delivers what it was handed and the receiving thread runs;
\* the sending peer may stop at any point, for ever
ConnFairness == WF_vars(Deliver) /\ WF_vars(ReaderRead) /\ WF_vars(ReaderEof)

\* the messages of the scenario in which the sender may stop for ever
FairMessages == {Echo(<<65, 233>>), Jumble(<<>>, 0), Response(<<>>)}

ConnFairInit == ConnInit /\ smsg \in FairMessages

\* one frame over a connection whose transport and receiver keep going
ConnFairSpec == ConnFairInit /\ [][ConnNext]_vars /\ ConnFairness

---------------------------------------------------------------------------
\* Several frames on one connection: a peer calls Protocol::send_message for
\* one message after the other, and the other end, which holds one Protocol
\* (one BufReader over the stream), calls read_message once per frame.

\* how many frames are sent on the connection
MaxFrames == 2

PipeRequests == {Echo(<<65>>), Jumble(<<>>, 258)}
PipeResponses == {Response(<<>>), Response(<<65>>)}

\* what is sent: Requests to a peer that reads Requests, or Responses to a
\* peer that reads Responses
PipeFrames ==
    UNION {[1..k -> PipeRequests] \cup [1..k -> PipeResponses] : k \in 1..MaxFrames}

\* Protocol::with_stream on both ends; the sender is in its first send_message
\* and the receiver in its first read_message
PipeInit ==
    /\ frames \in PipeFrames /\ sending = 1 /\ inbox = <<>>
    /\ spc = "writing" /\ smsg = frames[1] /\ swriter = "TcpStream"
    /\ pending = Serialize(frames[1]).writes
    /\ wbuf = <<>> /\ handed = <<>> /\ net = <<>> /\ sock = <<>>
    /\ delivered = <<>> /\ fin = FALSE
    /\ rpc = FirstField(Receives(frames[1])).rpc
    /\ need = FirstField(Receives(frames[1])).need
    /\ rkind = 0 /\ rmessage = <<>> /\ got = <<>> /\ rbuf = <<>>
    /\ rres = NoResult
    /\ CodecIdle /\ JumbleIdle /\ ServerIdle /\ RawIdle

\* the peer calls send_message for its next message
SendNext ==
    /\ spc = "returned" /\ sending < Len(frames)
    /\ sending' = sending + 1
    /\ smsg' = frames[sending + 1]
    /\ pending' = Serialize(frames[sending + 1]).writes
    /\ spc' = "writing"
    /\ UNCHANGED <<swriter, wbuf, handed, net, sock, delivered, fin>>
    /\ UNCHANGED <<rpc, rkind, rmessage, need, got, rbuf, rres>>
    /\ UNCHANGED <<frames, inbox>>
    /\ UNCHANGED notStream

\* the network delivers the next n bytes to the receiving socket; of what has
\* arrived the scenario keeps the bytes, not the segments they came in
StreamDeliver ==
    /\ net # <<>>
    /\ \E n \in 1..Len(net) :
        /\ sock' = sock \o SubSeq(net, 1, n)
        /\ delivered' = <<Arrived \o SubSeq(net, 1, n)>>
        /\ net' = SubSeq(net, n + 1, Len(net))
    /\ UNCHANGED <<spc, smsg, swriter, pending, wbuf, handed, fin>>
    /\ UNCHANGED <<rpc, rkind, rmessage, need, got, rbuf, rres>>
    /\ UNCHANGED notConn

\* a BufReader made anew for each call: what the last one read ahead is lost
NextReader_fresh(rb) == <<>>

\* read_message reads from self.reader, the BufReader made in with_stream:
\* the next call finds in it what the last one read ahead
NextReader(rb) == rb

\* read_message returned a message and is called again on the same Protocol
ReadNext ==
    /\ rres.status = "ok" /\ Len(inbox) + 1 < Len(frames)
    /\ inbox' = Append(inbox, rres)
    /\ rres' = NoResult
    /\ rpc' = FirstField(Receives(frames[1])).rpc
    /\ need' = FirstField(Receives(frames[1])).need
    /\ rkind' = 0 /\ rmessage' = <<>> /\ got' = <<>>
    /\ rbuf' = NextReader(rbuf)
    /\ UNCHANGED <<spc, smsg, swriter, pending, wbuf, handed, net, sock, delivered, fin>>
    /\ UNCHANGED <<frames, sending>>
    /\ UNCHANGED notStream

PipeNext ==
    \/ SenderWrite
    \/ SenderFlush
    \/ SendNext
    \/ StreamDeliver
    \/ ReaderRead
    \/ ReadNext

\* the sender goes on to send every frame, the transport delivers what it was
\* handed, and the receiver goes on calling read_message
PipeFairness ==
    /\ WF_vars(SenderWrite) /\ WF_vars(SenderFlush) /\ WF_vars(SendNext)
    /\ WF_vars(StreamDeliver)
    /\ WF_vars(ReaderRead) /\ WF_vars(ReadNext)

PipeSpec == PipeInit /\ [][PipeNext]_vars /\ PipeFairness

---------------------------------------------------------------------------
\* jumble_message (server.rs): the chars of the message collected into a
\* Vec<char>, `amount` swaps of the first char with the one at i % len, the
\* chars collected back into a String.

\* message.chars(): the chars decoded from the UTF-8 bytes of the str
chars(message) == from_utf8(as_bytes(message)).chars

\* chars.into_iter().collect::<String>(): each char pushed as UTF-8
collect(cs) == from_utf8(as_bytes(cs)).chars

\* the char at b copied over the one at a, the one at a lost
swap_copy(v, a, b) == [v EXCEPT ![a + 1] = v[b + 1]]

\* chars.swap(a, b), indices counted from 0
swap(v, a, b) == [v EXCEPT ![a + 1] = v[b + 1], ![b + 1] = v[a + 1]]

\* the loop counted from 0 (for i in 0..amount)
JumbleBody_from0(cs, i) == swap(cs, 0, (i - 1) % Len(cs))

\* the body of the loop for a non-empty Vec: shuffle = i % chars.len(), swap
JumbleBody(cs, i) == swap(cs, 0, i % Len(cs))

\* the body run before the range is tested (a do-while loop)
LoopDone_after_body(i, amount) == i >= amount /\ i >= 1

\* `for i in 1..=amount`: the range is used up once i has reached amount
\* (i = 0: no iteration made yet)
LoopDone(i, amount) == i >= amount

\* how a call of jumble_message ends: it returns a String, or it panics
\* ("attempt to calculate the remainder with a divisor of zero")
Returned(s) == [status |-> "ok", value |-> s]
Panicked == [status |-> "panic", value |-> <<>>]

\* the loop from after iteration i to its end
RECURSIVE JumbleLoop(_, _, _)
JumbleLoop(cs, i, amount) ==
    IF LoopDone(i, amount) THEN Returned(cs)
    ELSE IF Len(cs) = 0 THEN Panicked
    ELSE With(JumbleBody(cs, i + 1), LAMBDA swapped :
              JumbleLoop(swapped, i + 1, amount))

\* jumble_message(&message, amount)
jumble_message(message, amount) ==
    With(JumbleLoop(chars(message), 0, amount), LAMBDA r :
        IF r.status = "ok" THEN Returned(collect(r.value)) ELSE r)

---------------------------------------------------------------------------
\* Jumble scenario: jumble_message called on one message and amount, one
\* iteration of its loop at a time, and then called again on the same input.

\* "Hello"
Hello == <<72, 101, 108, 108, 111>>

JumbleMessages == Strings \cup {Hello, <<65, 233, 8364>>}

JumbleInit ==
    /\ jpc = "start"
    /\ jmessage \in JumbleMessages
    /\ jamount \in 0..MaxAmount
    /\ jchars = <<>> /\ ji = 0 /\ jtrace = <<>> /\ jcalls = <<>>
    /\ CodecIdle /\ ConnIdle /\ ServerIdle /\ RawIdle /\ StreamIdle

\* let mut chars: Vec<char> = message.chars().collect();
JumbleCall ==
    /\ jpc = "start"
    /\ jchars' = chars(jmessage)
    /\ ji' = 0 /\ jtrace' = <<>>
    /\ jpc' = "loop"
    /\ UNCHANGED <<jmessage, jamount, jcalls>>
    /\ UNCHANGED notJumble

\* one iteration of the loop; on an empty Vec the remainder panics
JumbleIterate ==
    /\ jpc = "loop" /\ ~LoopDone(ji, jamount)
    /\ ji' = ji + 1
    /\ IF Len(jchars) = 0
       THEN /\ jpc' = "panicked"
            /\ jcalls' = Append(jcalls, Panicked)
            /\ UNCHANGED <<jchars, jtrace>>
       ELSE /\ jchars' = JumbleBody(jchars, ji + 1)
            /\ jtrace' = Append(jtrace, JumbleBody(jchars, ji + 1))
            /\ UNCHANGED <<jpc, jcalls>>
    /\ UNCHANGED <<jmessage, jamount>>
    /\ UNCHANGED notJumble

\* chars.into_iter().collect()
JumbleReturn ==
    /\ jpc = "loop" /\ LoopDone(ji, jamount)
    /\ jcalls' = Append(jcalls, Returned(collect(jchars)))
    /\ jpc' = "returned"
    /\ UNCHANGED <<jmessage, jamount, jchars, ji, jtrace>>
    /\ UNCHANGED notJumble

\* the function is called again with the same message and amount
JumbleAgain ==
    /\ jpc \in {"returned", "panicked"} /\ Len(jcalls) < MaxCalls
    /\ jpc' = "start"
    /\ jchars' = <<>> /\ ji' = 0 /\ jtrace' = <<>>
    /\ UNCHANGED <<jmessage, jamount, jcalls>>
    /\ UNCHANGED notJumble

JumbleNext ==
    \/ JumbleCall
    \/ JumbleIterate
    \/ JumbleReturn
    \/ JumbleAgain

JumbleSpec == JumbleInit /\ [][JumbleNext]_vars

---------------------------------------------------------------------------
\* The server binary (server.rs) and its peers.  main accepts connections and
\* spawns one thread per connection; the thread runs handle_connection: one
\* Request decoded from a BufReader over the stream, the Response computed,
\* serialized into a BufWriter over the same stream and flushed.  A peer is
\* the client binary (client.rs: one Request serialized into a BufWriter and
\* flushed, one Response decoded) or a foreign program that writes bytes of
\* its own and then leaves the connection open, closes it, or resets it.

\* the connections of the scenario
Conns == {1, 2}

\* "' from the other side!"
FromTheOtherSide ==
    <<39, 32, 102, 114, 111, 109, 32, 116, 104, 101, 32, 111, 116, 104, 101, 114,
      32, 115, 105, 100, 101, 33>>

\* format!("'{}' from the other side!", message)
Template(message) == <<39>> \o message \o FromTheOtherSide

\* the match of handle_connection: the Response for a Request, or the panic
\* of jumble_message
Respond(request) ==
    IF request.kind = "Echo" THEN Returned(Response(Template(request.message)))
    ELSE With(jumble_message(request.message, request.amount), LAMBDA jumbled :
             IF jumbled.status = "ok" THEN Returned(Response(jumbled.value))
             ELSE Panicked)

\* the write calls of serialize made on a writer whose buffer holds w
RECURSIVE WriteAll(_, _, _)
WriteAll(writer, w, chunks) ==
    IF chunks = <<>> THEN [wbuf |-> w, out |-> <<>>]
    ELSE With(write_all(writer, w, Head(chunks)), LAMBDA first :
         With(WriteAll(writer, first.wbuf, Tail(chunks)), LAMBDA rest :
             [wbuf |-> rest.wbuf, out |-> first.out \o rest.out]))

\* m.serialize(&mut writer)?; writer.flush(): the bytes handed to the TcpStream
Send(writer, m) ==
    With(WriteAll(writer, <<>>, Serialize(m).writes), LAMBDA written :
        written.out \o flush(writer, written.wbuf).out)

\* client.rs main: the Request built from the command line
ClientRequest(message, jumble) ==
    IF jumble > 0 THEN Jumble(message, jumble) ELSE Echo(message)

\* the error of `?` kept and the handler going on with a default value
Try_ignore(result) == TRUE

\* the `?` operator: the function goes on only with an Ok
Try(result) == result.status = "ok"

\* the handler loops back to read the next Request (a keep-alive connection)
Returns_loop == "reading"

\* handle_connection returns after writer.flush(): its thread ends
Returns == "ended"

\* std::thread::spawn's JoinHandle is dropped: what the thread returns, or its
\* panic, never reaches main's loop
ThreadEnds(l, result) == l

\* handle_connection called in main's loop itself: the loop goes on to the
\* next connection only when no connection is being handled
LoopFree_inline(h) == \A c \in DOMAIN h : h[c].pc \in {"none", "ended"}

\* main's loop hands the stream to a new thread and is at once back at
\* listener.incoming(), whatever the threads are doing
LoopFree(h) == TRUE

\* `request` is a local of the connection's own thread
DecodedBy(h, c) == h[c].request

\* where the transport may have got to with n bytes to deliver: the first
\* byte only, all but the last byte, or all of them
DeliverPoints(n, at) == {k \in {1, n - 1, n} : k > at /\ k <= n}

NoPeer == [kind |-> "absent", request |-> NoMessage, bytes |-> <<>>, ends |-> "open"]
ClientPeer(message, jumble) ==
    [kind |-> "client", request |-> PackMsg(ClientRequest(message, jumble)),
     bytes |-> <<>>, ends |-> "fin"]
ForeignPeer(bytes, ends) ==
    [kind |-> "foreign", request |-> NoMessage, bytes |-> bytes, ends |-> ends]

\* what a foreign program writes: nothing, the frames of RawFrames, a frame
\* cut short, two Requests back to back, a Jumble of the empty message
ForeignBytes ==
    RawFrames \cup
    {<<>>, <<2, 0, 3, 65>>, <<1, 0, 1, 65, 1, 0, 2, 195, 169>>, <<2, 0, 0, 0, 2, 0, 1>>}

\* the messages given to the client binary on its command line; the long
\* ones are the longest whose Echo reply fits the u16 length, and the longest
\* Request
ClientMessages ==
    {<<>>, <<65>>, <<65, 233>>, Hello,
     Repeat(97, U16Mod - 1 - Len(Template(<<>>))), Repeat(97, U16Mod - 1)}

\* --jumble
ClientJumbles == {0, 1, 3}

ExchangePeers ==
    {ClientPeer(m, j) : m \in ClientMessages, j \in ClientJumbles}
    \cup {ForeignPeer(b, e) : b \in ForeignBytes, e \in {"open", "fin", "rst"}}

\* the peers of the scenario with two connections at once
ServerPeers ==
    {ClientPeer(<<65, 233>>, 0), ClientPeer(Hello, 3), ClientPeer(<<>>, 1),
     ForeignPeer(<<2, 0, 3, 65>>, "open"), ForeignPeer(<<3, 0>>, "fin"),
     ForeignPeer(<<1, 0, 1, 65, 1, 0, 2, 195, 169>>, "rst")}

NewWire ==
    [stage |-> "none", toServer |-> <<>>, atServer |-> 0, peerEnd |-> "open",
     toClient |-> <<>>, atClient |-> 0, serverFin |-> FALSE]
NewHandler == [pc |-> "none", reads |-> 0, request |-> NoResult, result |-> "none"]
NewClient == [pc |-> "start", reads |-> 0, response |-> NoResult]

\* the bytes of a direction that have reached the other end
ArrivedAtServer(c) == SubSeq(Unpack(wire[c].toServer), 1, wire[c].atServer)
ArrivedAtClient(c) == SubSeq(Unpack(wire[c].toClient), 1, wire[c].atClient)

ServerStart ==
    /\ listener = "listening"
    /\ wire = [c \in Conns |-> NewWire]
    /\ handler = [c \in Conns |-> NewHandler]
    /\ client = [c \in Conns |-> NewClient]
    /\ CodecIdle /\ ConnIdle /\ JumbleIdle /\ RawIdle /\ StreamIdle

\* one peer connects to the server
ExchangeInit ==
    /\ \E p \in ExchangePeers : peers = [c \in Conns |-> IF c = 1 THEN p ELSE NoPeer]
    /\ ServerStart

\* two peers connect to the server
ServerInit ==
    /\ peers \in [Conns -> ServerPeers]
    /\ ServerStart

\* TcpStream::connect: the connection is made and waits to be accepted
Connect(c) ==
    /\ listener = "listening"
    /\ peers[c].kind # "absent" /\ client[c].pc = "start"
    /\ client' = [client EXCEPT ![c].pc = "connected"]
    /\ wire' = [wire EXCEPT ![c].stage = "queued"]
    /\ UNCHANGED <<listener, peers, handler>>
    /\ UNCHANGED notServer

\* main: listener.incoming() yields the stream, and a thread is spawned that
\* enters handle_connection and reaches Request::deserialize
Accept(c) ==
    /\ listener = "listening" /\ LoopFree(handler)
    /\ wire[c].stage = "queued"
    /\ wire' = [wire EXCEPT ![c].stage = "accepted"]
    /\ handler' = [handler EXCEPT ![c].pc = "reading"]
    /\ UNCHANGED <<listener, peers, client>>
    /\ UNCHANGED notServer

\* TcpClient::send_request: req.serialize(&mut self.writer)?; self.writer.flush()?
ClientSend(c) ==
    /\ peers[c].kind = "client" /\ client[c].pc = "connected"
    /\ wire' = [wire EXCEPT ![c].toServer =
                    Pack(Send("BufWriter", UnpackMsg(peers[c].request)))]
    /\ client' = [client EXCEPT ![c].pc = "sent"]
    /\ UNCHANGED <<listener, peers, handler>>
    /\ UNCHANGED notServer

\* a foreign program writes its bytes to the stream
PeerWrite(c) ==
    /\ peers[c].kind = "foreign" /\ client[c].pc = "connected"
    /\ wire' = [wire EXCEPT ![c].toServer = peers[c].bytes]
    /\ client' = [client EXCEPT ![c].pc = "sent"]
    /\ UNCHANGED <<listener, peers, handler>>
    /\ UNCHANGED notServer

\* a foreign program closes or resets the connection
PeerEnd(c) ==
    /\ peers[c].kind = "foreign" /\ client[c].pc = "sent"
    /\ peers[c].ends # "open"
    /\ wire' = [wire EXCEPT ![c].peerEnd = peers[c].ends]
    /\ client' = [client EXCEPT ![c].pc = "done"]
    /\ UNCHANGED <<listener, peers, handler>>
    /\ UNCHANGED notServer

\* the transport delivers bytes of the peer to the server's socket
DeliverRequest(c) ==
    /\ \E n \in DeliverPoints(Len(Unpack(wire[c].toServer)), wire[c].atServer) :
          wire' = [wire EXCEPT ![c].atServer = n]
    /\ UNCHANGED <<listener, peers, handler, client>>
    /\ UNCHANGED notServer

\* handle_connection: Request::deserialize(&mut reader)? returns, once the
\* bytes arrived decide it or the peer has ended the stream; on an Err the
\* function returns it, the stream is dropped and the thread ends
HandlerRead(c) ==
    /\ handler[c].pc = "reading"
    /\ \E arrived \in {ArrivedAtServer(c)} :
       \E decoded \in {Request_deserialize(arrived)} :
       LET whole == decoded.kind # "UnexpectedEof"
           ended == /\ wire[c].peerEnd # "open"
                    /\ wire[c].atServer = Len(Unpack(wire[c].toServer))
           result == IF ~whole /\ wire[c].peerEnd = "rst"
                     THEN Err("ConnectionReset", "Connection reset by peer",
                              wire[c].atServer)
                     ELSE decoded
       IN  /\ whole \/ ended
           /\ IF Try(result)
              THEN /\ handler' = [handler EXCEPT ![c].pc = "decoded",
                                                 ![c].reads = @ + 1,
                                                 ![c].request = PackResult(result)]
                   /\ UNCHANGED <<wire, listener>>
              ELSE /\ handler' = [handler EXCEPT ![c].pc = "ended",
                                                 ![c].reads = @ + 1,
                                                 ![c].request = PackResult(result),
                                                 ![c].result = "Err"]
                   /\ wire' = [wire EXCEPT ![c].serverFin = TRUE]
                   /\ listener' = ThreadEnds(listener, "Err")
    /\ UNCHANGED <<peers, client>>
    /\ UNCHANGED notServer

\* handle_connection: the match on the request, resp.serialize(&mut writer)?
\* and writer.flush(); a panic of jumble_message unwinds the thread, which
\* drops the stream with nothing written
HandlerReply(c) ==
    /\ handler[c].pc = "decoded"
    /\ \E resp \in {Respond(UnpackMsg(DecodedBy(handler, c).value))} :
           IF resp.status = "ok"
           THEN /\ wire' = [wire EXCEPT ![c].toClient =
                               Pack(Send("BufWriter", resp.value))]
                /\ handler' = [handler EXCEPT ![c].pc = "replied"]
                /\ UNCHANGED listener
           ELSE /\ wire' = [wire EXCEPT ![c].serverFin = TRUE]
                /\ handler' = [handler EXCEPT ![c].pc = "ended",
                                              ![c].result = "panic"]
                /\ listener' = ThreadEnds(listener, "panic")
    /\ UNCHANGED <<peers, client>>
    /\ UNCHANGED notServer

\* handle_connection returns Ok(()): reader and writer are dropped, the
\* connection is closed and the thread ends
HandlerReturn(c) ==
    /\ handler[c].pc = "replied"
    /\ handler' = [handler EXCEPT ![c].pc = Returns,
                                  ![c].result = IF Returns = "ended" THEN "Ok" ELSE @]
    /\ wire' = [wire EXCEPT ![c].serverFin = (Returns = "ended")]
    /\ listener' = ThreadEnds(listener, "Ok")
    /\ UNCHANGED <<peers, client>>
    /\ UNCHANGED notServer

\* the transport delivers bytes of the server to the peer's socket
DeliverResponse(c) ==
    /\ \E n \in DeliverPoints(Len(Unpack(wire[c].toClient)), wire[c].atClient) :
          wire' = [wire EXCEPT ![c].atClient = n]
    /\ UNCHANGED <<listener, peers, handler, client>>
    /\ UNCHANGED notServer

\* TcpClient::send_request: Response::deserialize(&mut self.reader) returns,
\* once the bytes arrived decide it or the server has closed; main prints the
\* message or the error and the process ends
ClientRead(c) ==
    /\ peers[c].kind = "client" /\ client[c].pc = "sent"
    /\ \E arrived \in {ArrivedAtClient(c)} :
       \E decoded \in {Response_deserialize(arrived)} :
       LET whole == decoded.kind # "UnexpectedEof"
           ended == /\ wire[c].serverFin
                    /\ wire[c].atClient = Len(Unpack(wire[c].toClient))
       IN  /\ whole \/ ended
           /\ client' = [client EXCEPT ![c].pc = "done",
                                       ![c].reads = @ + 1,
                                       ![c].response = PackResult(decoded)]
    /\ wire' = [wire EXCEPT ![c].peerEnd = "fin"]
    /\ UNCHANGED <<listener, peers, handler>>
    /\ UNCHANGED notServer

ServerNext ==
    \E c \in Conns :
        \/ Connect(c)
        \/ Accept(c)
        \/ ClientSend(c)
        \/ PeerWrite(c)
        \/ PeerEnd(c)
        \/ DeliverRequest(c)
        \/ HandlerRead(c)
        \/ HandlerReply(c)
        \/ HandlerReturn(c)
        \/ DeliverResponse(c)
        \/ ClientRead(c)

\* one connection, from connect to close
ExchangeSpec == ExchangeInit /\ [][ServerNext]_vars

\* the server's threads run, and the transport delivers what it was handed;
\* a peer may stay silent for ever
ServerFairness ==
    \A c \in Conns :
        /\ WF_vars(Accept(c))
        /\ WF_vars(DeliverRequest(c))
        /\ WF_vars(HandlerRead(c))
        /\ WF_vars(HandlerReply(c))
        /\ WF_vars(HandlerReturn(c))
        /\ WF_vars(DeliverResponse(c))
        /\ WF_vars(ClientRead(c))

\* two connections handled at once
ServerSpec == ServerInit /\ [][ServerNext]_vars /\ ServerFairness

---------------------------------------------------------------------------
\* The raw crate's readers (raw/src/lib.rs): extract_string_unbuffered and
\* extract_string_buffered called, as the crate's tests call them, on a
\* Cursor over the bytes of a message.

\* const MESSAGE_BUFFER_SIZE: usize = 32
MESSAGE_BUFFER_SIZE == 32

\* the String an extract_string_* call returns, as a value of a result
StringOf(s) == [kind |-> "String", message |-> s, amount |-> 0]

\* Cursor's Read::read into a slice of n bytes: the bytes from pos on, as many
\* as there are and at most n; none at the end
Cursor_read(bytes, pos, n) == SubSeq(bytes, pos + 1, Min(pos + n, Len(bytes)))

\* the error both functions map a FromUtf8Error to
NotUtf8(pos) == Err("InvalidData", "Couldn't parse received string as utf8", pos)

\* String::from_utf8(received).map_err(..)
RawResult(bytes, pos) ==
    With(from_utf8(bytes), LAMBDA str :
        IF str.ok THEN Ok(StringOf(str.chars), pos) ELSE NotUtf8(pos))

\* lengths, in bytes, around the read array and around BufReader's buffer
RawLengths ==
    {MESSAGE_BUFFER_SIZE - 1, MESSAGE_BUFFER_SIZE, MESSAGE_BUFFER_SIZE + 1,
     MESSAGE_BUFFER_SIZE + MESSAGE_BUFFER_SIZE, BufCap - 1, BufCap, BufCap + 1}

\* the messages of the tests: the enumerated strings, "Hello", runs of 'a' of
\* the lengths above, and a message of 33 bytes whose last char, of 2 bytes,
\* lies across the end of the read array (3 bytes of 'A', 7 emoji of 4 bytes,
\* e-acute)
RawMessages ==
    Strings \cup {Hello}
    \cup {Repeat(97, n) : n \in RawLengths}
    \cup {Repeat(65, 3) \o Repeat(128512, 7) \o <<233>>}

RawFns == {"extract_string_unbuffered", "extract_string_buffered"}

\* let message = ..; let mut reader = Cursor::new(message.as_bytes());
RawInit ==
    /\ xpc = "start"
    /\ \E m \in RawMessages : xmessage = Pack(m)
    /\ xfn \in RawFns
    /\ xpos = 0 /\ received = <<>> /\ xres = NoResult
    /\ CodecIdle /\ ConnIdle /\ JumbleIdle /\ ServerIdle /\ StreamIdle

\* the bytes the Cursor holds
CursorBytes == as_bytes(Unpack(xmessage))

\* extract_string_unbuffered: let mut received = vec![]; let mut rx_bytes = ..
UnbufferedStart ==
    /\ xpc = "start" /\ xfn = "extract_string_unbuffered"
    /\ xpc' = "reading" /\ received' = <<>>
    /\ UNCHANGED <<xmessage, xfn, xpos, xres>>
    /\ UNCHANGED notRaw

\* one turn of the loop: buf.read(&mut rx_bytes)?, extend_from_slice, and the
\* break when the array was not filled
UnbufferedRead ==
    /\ xpc = "reading"
    /\ \E rx \in {Cursor_read(CursorBytes, xpos, MESSAGE_BUFFER_SIZE)} :
          /\ received' = Pack(Unpack(received) \o rx)
          /\ xpos' = xpos + Len(rx)
          /\ xpc' = IF Len(rx) < MESSAGE_BUFFER_SIZE THEN "collected" ELSE "reading"
    /\ UNCHANGED <<xmessage, xfn, xres>>
    /\ UNCHANGED notRaw

\* extract_string_buffered: io::BufReader::new(&mut buf)
BufferedStart ==
    /\ xpc = "start" /\ xfn = "extract_string_buffered"
    /\ xpc' = "filling" /\ received' = <<>>
    /\ UNCHANGED <<xmessage, xfn, xpos, xres>>
    /\ UNCHANGED notRaw

\* reader.fill_buf()?.to_vec() and reader.consume(received.len()): the empty
\* BufReader reads once into its buffer of BufCap bytes and hands out what it
\* got
BufferedFill ==
    /\ xpc = "filling"
    /\ \E filled \in {Cursor_read(CursorBytes, xpos, BufCap)} :
          /\ received' = Pack(filled)
          /\ xpos' = xpos + Len(filled)
    /\ xpc' = "collected"
    /\ UNCHANGED <<xmessage, xfn, xres>>
    /\ UNCHANGED notRaw

\* String::from_utf8(received).map_err(..): the function returns
RawReturn ==
    /\ xpc = "collected"
    /\ xres' = PackResult(RawResult(Unpack(received), xpos))
    /\ xpc' = "done"
    /\ UNCHANGED <<xmessage, xfn, xpos, received>>
    /\ UNCHANGED notRaw

RawNext ==
    \/ UnbufferedStart
    \/ UnbufferedRead
    \/ BufferedStart
    \/ BufferedFill
    \/ RawReturn

RawSpec == RawInit /\ [][RawNext]_vars

---------------------------------------------------------------------------
\* The lines crate (lines/src/lib.rs): LinesCodec over a TcpStream, a
\* LineWriter to send and a BufReader to receive.  A peer calls send_message
\* for one message after the other; the other end calls read_message once
\* per message sent.

\* how many messages are sent on the connection
MaxLines == 2

\* the capacity LineWriter::new gives its buffer
LineCap == 1024

\* '\n' as u8
Newline == 10

\* the index of the last '\n' in the bytes b (0: none)
LastNewline(b) ==
    LET at == {i \in 1..Len(b) : b[i] = Newline}
    IN  IF at = {} THEN 0 ELSE CHOOSE i \in at : \A j \in at : j <= i

\* the index of the first '\n' in the bytes b (0: none)
FirstNewline(b) ==
    LET at == {i \in 1..Len(b) : b[i] = Newline}
    IN  IF at = {} THEN 0 ELSE CHOOSE i \in at : \A j \in at : i <= j

\* write_all on the BufWriter inside the LineWriter: the buffer after the call
\* and the bytes passed on to the TcpStream by it
LineBuffer_write_all(w, chunk) ==
    LET spare == LineCap - Len(w) IN
    IF Len(chunk) < spare THEN [wbuf |-> w \o chunk, out |-> <<>>]
    ELSE LET flushed == Len(chunk) > spare
             w1 == IF flushed THEN <<>> ELSE w
             o1 == IF flushed THEN w ELSE <<>>
         IN  IF Len(chunk) >= LineCap
             THEN [wbuf |-> w1, out |-> o1 \o chunk]
             ELSE [wbuf |-> w1 \o chunk, out |-> o1]

\* the bytes with no '\n' in them go to the buffer, after a completed line
\* still in the buffer is flushed
LineWriter_buffer(w, chunk) ==
    IF w # <<>> /\ w[Len(w)] = Newline
    THEN With(LineBuffer_write_all(<<>>, chunk), LAMBDA r :
              [wbuf |-> r.wbuf, out |-> w \o r.out])
    ELSE LineBuffer_write_all(w, chunk)

\* LineWriter's write_all: the bytes up to the last '\n' are passed on to the
\* TcpStream, with what the buffer held before them; the bytes after it are
\* buffered
LineWriter_write_all(w, chunk) ==
    With(LastNewline(chunk), LAMBDA nl :
        IF nl = 0 THEN LineWriter_buffer(w, chunk)
        ELSE With(LineBuffer_write_all(<<>>, SubSeq(chunk, nl + 1, Len(chunk))),
                  LAMBDA tail :
                  [wbuf |-> tail.wbuf,
                   out |-> w \o SubSeq(chunk, 1, nl) \o tail.out]))

\* the '\n' kept in the buffer like any other byte (a BufWriter in place of
\* the LineWriter)
LineWriter_write_buffered(w, chunk) == LineBuffer_write_all(w, chunk)

\* LineWriter's write: with a '\n' in the bytes, the buffer is flushed and the
\* bytes up to the last '\n' are written to the TcpStream, which takes them;
\* the bytes after it are buffered
LineWriter_write(w, chunk) == LineWriter_write_all(w, chunk)

\* one write call of send_message
LineWriter_call(call, w) ==
    IF call.op = "write_all" THEN LineWriter_write_all(w, call.bytes)
    ELSE LineWriter_write(w, call.bytes)

\* the write calls of send_message(message)
LineWrites(message) ==
    <<[op |-> "write_all", bytes |-> as_bytes(message)],
      [op |-> "write", bytes |-> <<Newline>>]>>

\* line.pop(): the String without its last char (an empty String stays empty)
pop(line) == SubSeq(line, 1, Len(line) - 1)

\* read_line once the line's bytes are read, and line.pop(); taken is the
\* number of bytes taken from the reader so far
LineResult(bytes, taken) ==
    With(from_utf8(bytes), LAMBDA str :
        IF str.ok THEN Ok(StringOf(pop(str.chars)), taken)
        ELSE Err("InvalidData", "stream did not contain valid UTF-8", taken))

\* the messages sent: the empty one, one that ends with '\r', one with a '\n'
\* inside, and one that fills the LineWriter's buffer
LineMessages ==
    {<<>>, <<233, 13>>, <<65, Newline, 66>>, Repeat(97, LineCap)}

LineFrames == UNION {[1..k -> LineMessages] : k \in 1..MaxLines}

\* LinesCodec::new on both ends; the sender is in its first send_message and
\* the receiver in its first read_message
LinesInit ==
    /\ \E f \in LineFrames :
          /\ frames = [i \in 1..Len(f) |-> Pack(f[i])]
          /\ smsg = PackMsg(StringOf(f[1]))
          /\ pending = LineWrites(f[1])
    /\ sending = 1 /\ inbox = <<>>
    /\ spc = "writing" /\ swriter = "LineWriter"
    /\ wbuf = <<>> /\ handed = <<>> /\ net = <<>> /\ sock = <<>>
    /\ delivered = <<>> /\ fin = FALSE
    /\ rpc = "line" /\ need = 0
    /\ rkind = 0 /\ rmessage = <<>> /\ got = <<>> /\ rbuf = <<>>
    /\ rres = NoResult
    /\ CodecIdle /\ JumbleIdle /\ ServerIdle /\ RawIdle

\* the next write call of send_message; after the last one it returns Ok
LinesWrite ==
    /\ spc = "writing" /\ pending # <<>>
    /\ \E w \in {LineWriter_call(Head(pending), wbuf)} :
          /\ wbuf' = w.wbuf
          /\ handed' = handed \o w.out
          /\ net' = net \o w.out
    /\ pending' = Tail(pending)
    /\ spc' = IF Tail(pending) = <<>> THEN "returned" ELSE "writing"
    /\ UNCHANGED <<smsg, swriter, sock, delivered, fin>>
    /\ UNCHANGED <<rpc, rkind, rmessage, need, got, rbuf, rres>>
    /\ UNCHANGED notConn

\* the peer calls send_message for its next message
LinesSendNext ==
    /\ spc = "returned" /\ sending < Len(frames)
    /\ sending' = sending + 1
    /\ smsg' = PackMsg(StringOf(Unpack(frames[sending + 1])))
    /\ pending' = LineWrites(Unpack(frames[sending + 1]))
    /\ spc' = "writing"
    /\ UNCHANGED <<swriter, wbuf, handed, net, sock, delivered, fin>>
    /\ UNCHANGED <<rpc, rkind, rmessage, need, got, rbuf, rres>>
    /\ UNCHANGED <<frames, inbox>>
    /\ UNCHANGED notStream

\* how many of n bytes the network delivers next: one, or all; of a run as
\* long as the LineWriter's buffer, all but one, or all
LineSegments(n) == IF n < LineCap THEN {1, n} ELSE {n - 1, n}

\* the network delivers the next bytes to the receiving socket
LinesDeliver ==
    /\ net # <<>>
    /\ \E n \in LineSegments(Len(net)) :
        /\ sock' = sock \o SubSeq(net, 1, n)
        /\ delivered' = <<Arrived \o SubSeq(net, 1, n)>>
        /\ net' = SubSeq(net, n + 1, Len(net))
    /\ UNCHANGED <<spc, smsg, swriter, pending, wbuf, handed, fin>>
    /\ UNCHANGED <<rpc, rkind, rmessage, need, got, rbuf, rres>>
    /\ UNCHANGED notConn

\* read_message: one turn of read_line's loop that gets bytes: fill_buf (an
\* empty buffer is filled by one TcpStream::read), the bytes up to the first
\* '\n' appended to the line and consumed; with the '\n' found, the line is
\* checked to be UTF-8, popped and returned
LinesRead ==
    /\ rres.status = "none"
    /\ rbuf # <<>> \/ sock # <<>>
    /\ \E available \in {IF rbuf = <<>> THEN SubSeq(sock, 1, Min(BufCap, Len(sock)))
                         ELSE rbuf} :
       \E nl \in {FirstNewline(available)} :
       \E used \in {IF nl = 0 THEN Len(available) ELSE nl} :
          /\ rbuf' = SubSeq(available, used + 1, Len(available))
          /\ sock' = IF rbuf = <<>> THEN SubSeq(sock, Len(available) + 1, Len(sock))
                     ELSE sock
          /\ IF nl = 0
             THEN /\ got' = got \o available
                  /\ UNCHANGED <<rpc, rres>>
             ELSE /\ got' = <<>>
                  /\ rpc' = "done"
                  /\ rres' = PackResult(
                        LineResult(got \o SubSeq(available, 1, used),
                                   Len(Arrived) - Len(sock') - Len(rbuf')))
    /\ UNCHANGED <<rkind, rmessage, need>>
    /\ UNCHANGED <<spc, smsg, swriter, pending, wbuf, handed, net, delivered, fin>>
    /\ UNCHANGED notConn

\* read_message returned a line and is called again on the same LinesCodec
LinesReadNext ==
    /\ rres.status = "ok" /\ Len(inbox) + 1 < Len(frames)
    /\ inbox' = Append(inbox, rres)
    /\ rres' = NoResult
    /\ rpc' = "line" /\ got' = <<>>
    /\ UNCHANGED <<rkind, rmessage, need, rbuf>>
    /\ UNCHANGED <<spc, smsg, swriter, pending, wbuf, handed, net, sock, delivered, fin>>
    /\ UNCHANGED <<frames, sending>>
    /\ UNCHANGED notStream

LinesNext ==
    \/ LinesWrite
    \/ LinesSendNext
    \/ LinesDeliver
    \/ LinesRead
    \/ LinesReadNext

LinesSpec == LinesInit /\ [][LinesNext]_vars

---------------------------------------------------------------------------
\* Properties of the codec (specification CodecSpec)

Decoded == cpc = "decoded"

\* the deserialize called is the one of the message's type
Matching == (decoder = "Request") <=> IsRequest(Msg)

\* C1: for every valid Request, deserializing the bytes serialize produced
\* gives a Request of the same variant with an equal message and, for Jumble,
\* an equal amount.
C1_RequestRoundTrip ==
    (Decoded /\ how = "whole" /\ decoder = "Request" /\ IsRequest(Msg) /\ Valid(Msg))
        => /\ Out.status = "ok"
           /\ Out.value.kind = Msg.kind
           /\ Out.value.message = Msg.message
           /\ Msg.kind = "Jumble" => Out.value.amount = Msg.amount

C1_Witness ==
    /\ Decoded /\ how = "whole" /\ decoder = "Request"
    /\ Msg = Jumble(<<233, 128512>>, 258)
    /\ Out.status = "ok" /\ Out.value = Msg

\* C2: for every valid Response, deserializing the bytes serialize produced
\* gives a Response with an equal message.
C2_ResponseRoundTrip ==
    (Decoded /\ how = "whole" /\ decoder = "Response" /\ ~IsRequest(Msg) /\ Valid(Msg))
        => /\ Out.status = "ok"
           /\ Out.value.kind = "Response"
           /\ Out.value.message = Msg.message

C2_Witness ==
    /\ Decoded /\ how = "whole" /\ decoder = "Response"
    /\ Msg = Response(<<8364, 65>>)
    /\ Out.status = "ok" /\ Out.value.message = <<8364, 65>>

\* C3: decoding a byte source that ends inside the frame of a valid message
\* fails with the end-of-input error, and a message is returned only when the
\* source held every byte of that message's frame.
C3_TruncatedIsEof ==
    /\ (Decoded /\ how = "truncated" /\ Matching /\ Valid(Msg))
           => Out.status = "err" /\ Out.kind = "UnexpectedEof"
    /\ (Decoded /\ Out.status = "ok")
           => /\ Out.pos <= Len(Src)
              /\ Len(Frame(Out.value)) <= Len(Src)

C3_Witness ==
    /\ Decoded /\ how = "truncated" /\ decoder = "Request"
    /\ Msg = Jumble(<<65, 233>>, 258)
    /\ Len(Src) = Len(Buf) - 1
    /\ Out.kind = "UnexpectedEof"

\* C5: for both message kinds the count serialize returns is the number of
\* bytes it wrote to the buffer.
C5_CountIsBytesWritten ==
    cpc = "serialized" => ret = Len(Buf)

\* the big-endian u16 at bytes i, i + 1 of b
U16At(b, i) == b[i] * 256 + b[i + 1]

\* where the length prefix of the message starts in a frame of this message
LenAt(m) == IF IsRequest(m) THEN 2 ELSE 1

\* C6: a message longer than 65535 bytes is rejected before a length field is
\* written (serialize returns no count and the buffer holds no frame), and a
\* length written on the wire is the real byte length of the message.
C6_OverlongRejected ==
    cpc = "serialized"
        => /\ ByteLen(Msg.message) > U16Mod - 1 => (ret = -1 /\ Buf = <<>>)
           /\ Len(Buf) > LenAt(Msg) => U16At(Buf, LenAt(Msg)) = ByteLen(Msg.message)

\* C7: a first byte other than 1 or 2 makes Request::deserialize fail with
\* InvalidData "Invalid Request Type"; a Request is returned as Echo only for
\* a first byte 1 and as Jumble only for a first byte 2.
C7_InvalidType ==
    (Decoded /\ decoder = "Request" /\ Len(Src) >= 1)
        => /\ Src[1] \notin {1, 2}
                => /\ Out.status = "err"
                   /\ Out.kind = "InvalidData"
                   /\ Out.text = "Invalid Request Type"
           /\ (Src[1] = 1 /\ Out.status = "ok") => Out.value.kind = "Echo"
           /\ (Src[1] = 2 /\ Out.status = "ok") => Out.value.kind = "Jumble"

C7_Witness ==
    /\ Decoded /\ decoder = "Request" /\ how = "tampered"
    /\ IsRequest(Msg) /\ Len(Src) = Len(Buf) /\ Src[1] = 3
    /\ Out.text = "Invalid Request Type"

\* UTF-8 well-formedness stated byte by byte: a byte that is no continuation
\* byte starts a well-formed sequence, and a continuation byte lies inside the
\* sequence started by one of the three bytes before it.
WellFormedUtf8(b) ==
    \A i \in 1..Len(b) :
        IF IsCont(b[i])
        THEN \E j \in 1..(i - 1) :
                 /\ i - j < Utf8Width(b[j])
                 /\ Utf8WellFormedAt(b, j)
        ELSE Utf8WellFormedAt(b, i)

\* the string field of the source starts at byte p (its length prefix), is
\* wholly present, and is not UTF-8
FieldPresentNotUtf8(b, p) ==
    /\ Len(b) >= p + 1
    /\ Len(b) >= p + 1 + U16At(b, p)
    /\ ~WellFormedUtf8(SubSeq(b, p + 2, p + 1 + U16At(b, p)))

\* C8: when the string field is wholly present and is not valid UTF-8, the
\* decode fails with InvalidData "Invalid utf8", an error of another kind
\* than the one a truncated field gives; the bytes are never accepted.
C8_InvalidUtf8 ==
    /\ (Decoded /\ decoder = "Response" /\ FieldPresentNotUtf8(Src, 1))
           => /\ Out.status = "err" /\ Out.kind = "InvalidData"
              /\ Out.text = "Invalid utf8"
              /\ Out.kind # UnexpectedEof(0).kind
    /\ (Decoded /\ decoder = "Request" /\ Len(Src) >= 1 /\ Src[1] \in {1, 2}
            /\ FieldPresentNotUtf8(Src, 2))
           => /\ Out.status = "err" /\ Out.kind = "InvalidData"
              /\ Out.text = "Invalid utf8"
              /\ Out.kind # UnexpectedEof(0).kind

C8_Witness ==
    /\ Decoded /\ decoder = "Request" /\ how = "tampered"
    /\ Msg = Jumble(<<65, 233>>, 258)
    /\ Src[5] = 255
    /\ Out.text = "Invalid utf8"

\* every element is one byte
AllBytes(b) == \A i \in 1..Len(b) : b[i] \in 0..255

\* C9: the frame of a valid message has the wire layout: for a Request the
\* type byte (1 Echo, 2 Jumble), the byte length of the message as a
\* big-endian u16, the message bytes, and for Jumble a big-endian u16 of
\* value 2 and the amount as a big-endian u16; for a Response the big-endian
\* u16 length and the message bytes, with no type byte.
C9_WireLayout ==
    (cpc = "serialized" /\ Valid(Msg))
        => LET bytes == as_bytes(Msg.message)
               L == Len(bytes)
           IN  /\ AllBytes(Buf)
               /\ Msg.kind = "Response"
                    => /\ Len(Buf) = 2 + L
                       /\ Buf[1] = L \div 256 /\ Buf[2] = L % 256
                       /\ SubSeq(Buf, 3, 2 + L) = bytes
               /\ IsRequest(Msg)
                    => /\ Len(Buf) >= 3 + L
                       /\ Buf[1] = (IF Msg.kind = "Echo" THEN 1 ELSE 2)
                       /\ Buf[2] = L \div 256 /\ Buf[3] = L % 256
                       /\ SubSeq(Buf, 4, 3 + L) = bytes
               /\ Msg.kind = "Echo" => Len(Buf) = 3 + L
               /\ Msg.kind = "Jumble"
                    => /\ Len(Buf) = 7 + L
                       /\ Buf[4 + L] = 0 /\ Buf[5 + L] = 2
                       /\ Buf[6 + L] = Msg.amount \div 256
                       /\ Buf[7 + L] = Msg.amount % 256

C9_Witness ==
    /\ cpc = "serialized"
    /\ Msg = Jumble(<<65, 233>>, 258)
    /\ Buf = <<2, 0, 3, 65, 195, 169, 0, 2, 1, 2>>

\* C19: Request::deserialize reads the 2 bytes of the amount's length and
\* drops them: whatever value a Jumble frame holds there, the decode succeeds,
\* the amount is the value of the next 2 bytes, and the Request is the one
\* the frame gives with 2 in that place.
C19_AmountLenDiscarded ==
    (Decoded /\ how = "amount_len" /\ decoder = "Request")
        => /\ Out.status = "ok"
           /\ Out.value.kind = "Jumble"
           /\ Out.value.amount = U16At(Src, AmountLenAt(Msg) + 3)
           /\ Out = Request_deserialize(Buf)
           /\ Out.value = Msg

\* a Jumble frame that gives 65535 as the length of its amount
C19_Witness ==
    /\ Decoded /\ how = "amount_len" /\ decoder = "Request"
    /\ Src = <<2, 0, 1, 65, 255, 255, 1, 2>>
    /\ Out.status = "ok" /\ Out.value = Jumble(<<65>>, 258)

---------------------------------------------------------------------------
\* Properties of the connection (specifications ConnSpec and ConnFairSpec)

\* what deserialize gives when handed, in one piece, the bytes that have
\* arrived so far
InOnePiece == Deserialize(Receives(smsg), Arrived)

\* C4: read_message / deserialize on the connection's reader returns only
\* once the frame is whole, however the transport splits it: what it returns
\* is what the same bytes give in one piece, a returned message has its whole
\* frame among the bytes arrived (and is the message sent), the call has not
\* returned while the bytes arrived end inside a field and the stream is
\* still open, and a short read becomes an error only at the end of the stream.
C4_WholeFrameOnly ==
    /\ rres.status # "none" => rres = InOnePiece
    /\ rres.status = "ok"
         => /\ Len(Frame(rres.value)) <= Len(Arrived)
            /\ smsg # Raw => (rres.value = smsg /\ Arrived = Frame(smsg))
    /\ (InOnePiece.kind = "UnexpectedEof" /\ ~(fin /\ net = <<>>))
         => rres.status = "none"
    /\ rres.kind = "UnexpectedEof" => (fin /\ net = <<>> /\ sock = <<>>)

\* the frame came in three segments or more and the message was returned
C4_Witness ==
    /\ smsg = Jumble(<<8364>>, 258)
    /\ Len(delivered) >= 3
    /\ rres.status = "ok" /\ rres.value = smsg

\* C10: when a send returns Ok (Protocol::send_message, the client's
\* send_request, the server's reply), every byte of the frame has been handed
\* to the transport, in order, and the write buffer holds none of them.
C10_SendFlushes ==
    spc = "returned"
        => /\ pending = <<>>
           /\ wbuf = <<>>
           /\ smsg # Raw => handed = Frame(smsg)

C10_Witness ==
    /\ spc = "returned" /\ swriter = "BufWriter"
    /\ smsg = Jumble(<<8364>>, 258)
    /\ handed = <<2, 0, 3, 226, 130, 172, 0, 2, 1, 2>>
    /\ wbuf = <<>>

\* the bytes handed to the transport end inside a frame
Incomplete == Deserialize(Receives(smsg), handed).kind = "UnexpectedEof"

\* C18: once the peer has closed the connection with the bytes it handed over
\* ending inside a frame, a read_message / deserialize waiting for the rest of
\* the frame returns, and what it returns is the UnexpectedEof error, never a
\* message; while the connection is open and the frame incomplete, the call
\* has not returned, however long it has waited.
C18_CloseCancels ==
    /\ (fin /\ Incomplete) ~> (rres.status = "err" /\ rres.kind = "UnexpectedEof")
    /\ []((fin /\ Incomplete) => rres.status # "ok")
    /\ []((~fin /\ Incomplete) => rres.status = "none")

\* the sender stopped before the amount of its Jumble; the receiver, waiting
\* for the amount's length, got the error
C18_Witness ==
    /\ smsg = Jumble(<<>>, 0)
    /\ spc = "aborted" /\ fin
    /\ handed = <<2, 0, 0>>
    /\ rpc = "done" /\ need = 2
    /\ rres = UnexpectedEof(3)

---------------------------------------------------------------------------
\* Properties of jumble_message (specification JumbleSpec)

\* the string s with its first char and the char at index p (from 0) exchanged
Swapped(s, p) ==
    [j \in 1..Len(s) |-> IF j = 1 THEN s[p + 1] ELSE IF j = p + 1 THEN s[1] ELSE s[j]]

\* C13: the string after step i (i = 1..amount, in order) is the string before
\* it with the chars at index 0 and index i mod length exchanged, the length
\* counted in chars; what is returned is the string after the last step (the
\* message itself for amount 0); "Hello" is "eHllo" after i = 1, "lHelo" after
\* i = 2, and the result for amount 3 is the string after i = 3, "lHelo".
C13_JumbleSteps ==
    /\ \A k \in 1..Len(jtrace) :
          jtrace[k] = Swapped(IF k = 1 THEN jmessage ELSE jtrace[k - 1],
                              k % Len(jmessage))
    /\ jpc = "returned"
         => /\ Len(jtrace) = jamount
            /\ jcalls[Len(jcalls)] =
                 Returned(IF jamount = 0 THEN jmessage ELSE jtrace[jamount])
    /\ (jmessage = Hello /\ Len(jtrace) >= 1) => jtrace[1] = <<101, 72, 108, 108, 111>>
    /\ (jmessage = Hello /\ Len(jtrace) >= 2) => jtrace[2] = <<108, 72, 101, 108, 111>>
    /\ (jmessage = Hello /\ jamount = 3 /\ jpc = "returned")
         => jcalls[Len(jcalls)] = Returned(<<108, 72, 101, 108, 111>>)

C13_Witness ==
    /\ jmessage = Hello /\ jamount = 3 /\ jpc = "returned"
    /\ jtrace = <<<<101, 72, 108, 108, 111>>, <<108, 72, 101, 108, 111>>,
                  <<108, 72, 101, 108, 111>>>>
    /\ jcalls[1] = Returned(<<108, 72, 101, 108, 111>>)

\* C14: two calls with the same message and the same amount end the same way
\* (the same string returned), and with amount 0 every call returns the
\* message unchanged, the empty message included.
C14_Deterministic ==
    /\ Len(jcalls) >= 2 => \A k \in 2..Len(jcalls) : jcalls[k] = jcalls[1]
    /\ jamount = 0 => \A k \in 1..Len(jcalls) : jcalls[k] = Returned(jmessage)

C14_Witness ==
    /\ jamount = 0 /\ jmessage = <<233, 128512>>
    /\ Len(jcalls) = 2 /\ jcalls[2] = Returned(<<233, 128512>>)

\* how many times the char c occurs in the string s
Count(s, c) == Cardinality({j \in 1..Len(s) : s[j] = c})

\* a and b have the same number of chars and the same chars, each as often
SameChars(a, b) ==
    /\ Len(a) = Len(b)
    /\ \A j \in 1..Len(a) : Count(a, a[j]) = Count(b, a[j])

\* C21: for a non-empty message and every amount, the Vec of chars after each
\* swap, and every string returned, has as many chars as the message and the
\* same chars each as often; the call returns (it does not panic); a message
\* of one char is unchanged after every step and returned as it is.
C21_OnlyRearranges ==
    jmessage # <<>>
        => /\ jpc = "loop" => SameChars(jchars, jmessage)
           /\ \A k \in 1..Len(jtrace) : SameChars(jtrace[k], jmessage)
           /\ \A k \in 1..Len(jcalls) :
                 /\ jcalls[k].status = "ok"
                 /\ SameChars(jcalls[k].value, jmessage)
           /\ Len(jmessage) = 1
                 => /\ \A k \in 1..Len(jtrace) : jtrace[k] = jmessage
                    /\ \A k \in 1..Len(jcalls) : jcalls[k] = Returned(jmessage)

\* a message of three different chars after five swaps
C21_Witness ==
    /\ jmessage = <<65, 233, 8364>> /\ jamount = 5 /\ jpc = "returned"
    /\ Len(jtrace) = 5
    /\ jcalls[1] = Returned(<<233, 8364, 65>>)

---------------------------------------------------------------------------
\* Properties of one connection (specification ExchangeSpec)

\* the Request the server's side of connection c decodes from the bytes that
\* have arrived on that connection
RequestOn(c) == Request_deserialize(ArrivedAtServer(c))

\* the bytes the server wrote on connection c are one Response frame
OneResponseFrame(c) ==
    LET b == Unpack(wire[c].toClient)
    IN  /\ Len(b) >= 2
        /\ \E r \in {Respond(RequestOn(c).value)} :
              r.status = "ok" /\ b = Frame(r.value)

\* C11: on every connection the handler calls Request::deserialize once, writes
\* bytes only after that call returned a Request whose whole frame had
\* arrived, writes one Response frame and no more, and ends with the
\* connection closed, also when the peer sent a second Request; the client
\* writes one Request frame and calls Response::deserialize once, after it has
\* sent.
C11_OnePairPerConnection ==
    \A c \in Conns :
        /\ handler[c].reads <= 1
        /\ handler[c].pc \in {"decoded", "replied", "ended"} => handler[c].reads = 1
        /\ wire[c].toClient # <<>>
             => /\ handler[c].pc \in {"replied", "ended"}
                /\ handler[c].request.status = "ok"
                /\ RequestOn(c).status = "ok"
                /\ OneResponseFrame(c)
        /\ handler[c].pc = "ended" <=> wire[c].serverFin
        /\ peers[c].kind = "client"
             => /\ client[c].reads <= 1
                /\ client[c].pc \in {"start", "connected"}
                     => (wire[c].toServer = <<>> /\ client[c].reads = 0)
                /\ client[c].pc \in {"sent", "done"}
                     => wire[c].toServer = Pack(Frame(UnpackMsg(peers[c].request)))
                /\ client[c].pc = "done" <=> client[c].reads = 1

\* a peer sent two Requests back to back; the handler answered the first and
\* ended
C11_Witness ==
    /\ peers[1].bytes = <<1, 0, 1, 65, 1, 0, 2, 195, 169>>
    /\ wire[1].atServer = 9
    /\ handler[1].pc = "ended" /\ handler[1].reads = 1
    /\ handler[1].request.value = Echo(<<65>>)
    /\ wire[1].toClient = Frame(Response(Template(<<65>>)))

\* C12: a client that sent Echo(m), m valid as a Request, and has its result,
\* has received the Response whose message is ' then m then
\* "' from the other side!".
C12_EchoTemplate ==
    \A c \in Conns :
        (/\ peers[c].kind = "client" /\ peers[c].request.kind = "Echo"
         /\ Valid(UnpackMsg(peers[c].request))
         /\ client[c].pc = "done")
            => /\ client[c].response.status = "ok"
               /\ UnpackMsg(client[c].response.value).message
                    = <<39>> \o UnpackMsg(peers[c].request).message \o FromTheOtherSide

\* C15: when Request::deserialize fails on a connection (the stream reset, the
\* stream ended inside the frame, an unknown type byte, a string that is not
\* UTF-8), the handler has written no byte on the connection, has made that
\* one read only, and has ended with the connection closed.
C15_DecodeFailureCloses ==
    \A c \in Conns :
        handler[c].request.status = "err"
            => /\ wire[c].toClient = <<>>
               /\ handler[c].reads = 1
               /\ handler[c].pc = "ended" /\ handler[c].result = "Err"
               /\ wire[c].serverFin

\* the peer closed inside its frame
C15_Witness ==
    /\ peers[1].bytes = <<2, 0, 3, 65>> /\ peers[1].ends = "fin"
    /\ handler[1].request.kind = "UnexpectedEof"
    /\ handler[1].pc = "ended" /\ wire[1].serverFin
    /\ wire[1].toClient = <<>>

\* C20: a handler that decoded its Request and has ended has written one
\* Response frame and returned Ok.
C20_AlwaysResponds ==
    \A c \in Conns :
        (handler[c].request.status = "ok" /\ handler[c].pc = "ended")
            => /\ handler[c].result = "Ok"
               /\ OneResponseFrame(c)

---------------------------------------------------------------------------
\* Properties of connections handled at once (specification ServerSpec)

\* the client of connection c has sent a Request the server has a Response for
Awaiting(c) ==
    /\ peers[c].kind = "client" /\ client[c].pc = "sent"
    /\ Respond(UnpackMsg(peers[c].request)).status = "ok"

\* the client of connection c has received the Response to its own Request
Answered(c) ==
    /\ client[c].pc = "done"
    /\ client[c].response.status = "ok"
    /\ UnpackMsg(client[c].response.value)
         = Respond(UnpackMsg(peers[c].request)).value

\* C16: under every interleaving of the connections, main's loop is never
\* ended by what happens on a connection, the bytes written on a connection
\* are the Response to the Request that arrived on that same connection, and
\* a client that has sent its Request receives the Response to it, whatever
\* the other connection does: fail to decode, panic, or stay blocked in a
\* read for ever.
C16_Independent ==
    /\ [](listener = "listening")
    /\ [](\A c \in Conns : wire[c].toClient # <<>> => OneResponseFrame(c))
    /\ \A c \in Conns : Awaiting(c) ~> Answered(c)

\* connection 1 is blocked in its read while connection 2 has completed
C16_Witness ==
    /\ peers[1] = ForeignPeer(<<2, 0, 3, 65>>, "open")
    /\ handler[1].pc = "reading" /\ wire[1].atServer = 4
    /\ peers[2] = ClientPeer(Hello, 3)
    /\ handler[2].pc = "ended" /\ Answered(2)
    /\ client[2].response.value.message = <<108, 72, 101, 108, 111>>

---------------------------------------------------------------------------
\* Properties of the raw readers (specification RawSpec)

\* C17: extract_string_unbuffered and extract_string_buffered, called on a
\* Cursor that holds the bytes of a message, read no further than the end of
\* the message, and when they have returned, the result is Ok with exactly
\* that message, whatever its length.
C17_ExtractsMessage ==
    /\ xpos <= Len(CursorBytes)
    /\ xpc = "done"
         => /\ xres.status = "ok"
            /\ xres.value.message = xmessage

---------------------------------------------------------------------------
\* Properties of several frames on one connection (specification PipeSpec)

\* the results of the read_message calls that have returned, in order
Returned_messages == inbox \o (IF rres.status = "none" THEN <<>> ELSE <<rres>>)

\* the bytes of the first k frames sent
FramesUpTo(k) == Concat([i \in 1..k |-> Frame(frames[i])])

InOrder ==
    /\ Len(Returned_messages) <= sending
    /\ \A i \in 1..Len(Returned_messages) :
          /\ Returned_messages[i].status = "ok"
          /\ Returned_messages[i].value = frames[i]
          /\ Returned_messages[i].pos = Len(FramesUpTo(i))
    /\ Arrived \o net = handed
    /\ LET taken == Len(FramesUpTo(Len(Returned_messages)))
                      + (IF rres.status = "none" THEN Len(Arrived) - Len(rbuf) - Len(sock)
                                                      - Len(FramesUpTo(Len(inbox)))
                         ELSE 0)
       IN  /\ taken + Len(rbuf) + Len(sock) = Len(Arrived)
           /\ SubSeq(Arrived, taken + 1, Len(Arrived)) = rbuf \o sock
    /\ (spc = "returned" /\ sending = Len(frames) /\ handed = FramesUpTo(Len(frames))
        /\ net = <<>> /\ sock = <<>> /\ rbuf = <<>>)
         => Len(Returned_messages) = Len(frames)

\* C22: whatever the segments the transport delivers, the i-th read_message
\* call returns the message of the i-th frame sent, and has taken from the
\* stream the bytes of the first i frames and no more; the bytes that have
\* arrived and are not yet taken are in the reader's buffer and the socket,
\* in order; and when the peer sends its k frames, k calls do return, one
\* message for each frame.
C22_FramesInOrder ==
    /\ []InOrder
    /\ <>(Len(Returned_messages) = Len(frames))

\* both frames had arrived before the first call read: it read both into the
\* reader's buffer, and the second call found its frame there
C22_Witness ==
    /\ frames = <<Echo(<<65>>), Jumble(<<>>, 258)>>
    /\ Arrived = <<1, 0, 1, 65, 2, 0, 0, 0, 2, 1, 2>>
    /\ inbox = <<Ok(Echo(<<65>>), 4)>>
    /\ rbuf = <<2, 0, 0, 0, 2, 1, 2>> /\ sock = <<>>
    /\ rres = NoResult /\ rpc = "type"

---------------------------------------------------------------------------
\* Properties of the lines crate (specification LinesSpec)

\* the bytes of the first k messages sent, each followed by its '\n'
LinesUpTo(k) == Concat([i \in 1..k |-> as_bytes(Unpack(frames[i])) \o <<Newline>>])

\* no message sent has a '\n' in it
NoNewlines == \A i \in 1..Len(frames) : \A j \in 1..Len(frames[i]) : frames[i][j] # Newline

\* C23: when send_message has returned, the bytes of every message sent so
\* far, each followed by one '\n', have been handed to the transport, in
\* order, and the LineWriter's buffer is empty; when no message sent has a
\* '\n' in it, the i-th read_message call returns the i-th message sent, as
\* it was, after taking from the stream the bytes of the first i lines and no
\* more, and once every line has arrived and the reader holds no byte there
\* has been one message returned for each message sent.
C23_LineFraming ==
    /\ spc = "returned"
         => /\ pending = <<>> /\ wbuf = <<>>
            /\ handed = LinesUpTo(sending)
    /\ Arrived \o net = handed
    /\ NoNewlines
         => /\ \A i \in 1..Len(Returned_messages) :
                  Returned_messages[i] = Ok(StringOf(frames[i]), Len(LinesUpTo(i)))
            /\ (spc = "returned" /\ sending = Len(frames)
                /\ net = <<>> /\ sock = <<>> /\ rbuf = <<>>)
                 => Len(Returned_messages) = Len(frames)

\* two lines read by one fill into the reader's buffer: the first call
\* returned the first message, the second call the second, its '\r' kept
C23_Witness ==
    /\ frames = <<<<>>, <<233, 13>>>>
    /\ Arrived = <<10, 195, 169, 13, 10>>
    /\ inbox = <<Ok(StringOf(<<>>), 1)>>
    /\ rres = Ok(StringOf(<<233, 13>>), 5)

===========================================================================
